---------------------------- MODULE Spec2Model ----------------------------
(***************************************************************************)
(* Conversation engine of the movie/series post bot (src/main.py).         *)
(*                                                                         *)
(* Python dicts are modelled as functions whose DOMAIN is the set of keys  *)
(* that are present; a KeyError is the case "key not in DOMAIN".  Texts    *)
(* are sequences of one-character strings so that strip(), startswith(),   *)
(* isdigit(), upper() and float() are computed, not assumed.               *)
(***************************************************************************)
EXTENDS Integers, Sequences, FiniteSets, TLC

(***************************************************************************)
(* Bounds of the model                                                     *)
(***************************************************************************)
\* links a session may hold before the environment stops offering URLs
MaxLinks == 1
\* live add-link keyboards counted per chat (the count saturates here)
MaxKeyboards == 2
\* live bundle keyboards counted per chat (the count saturates here)
MaxFinalKeyboards == 1
\* links a session may hold in SpecLinks, where their order is observed
MaxOrderedLinks == 2

Users == {1, 2}

(***************************************************************************)
(* dict helpers                                                            *)
(***************************************************************************)
EmptyDict == [k \in {} |-> 0]

Has(d, k) == k \in DOMAIN d

Put(d, k, v) == [x \in (DOMAIN d) \cup {k} |-> IF x = k THEN v ELSE d[x]]

Del(d, k) == [x \in (DOMAIN d) \ {k} |-> d[x]]

\* dict.get(k, default)
GetOr(d, k, default) == IF Has(d, k) THEN d[k] ELSE default

(***************************************************************************)
(* str helpers                                                             *)
(***************************************************************************)
Digits == {"0", "1", "2", "3", "4", "5", "6", "7", "8", "9"}

Whitespace == {" ", "\n"}

LowerChars == <<"a","b","c","d","e","f","g","h","i","j","k","l","m",
                "n","o","p","q","r","s","t","u","v","w","x","y","z">>

UpperChars == <<"A","B","C","D","E","F","G","H","I","J","K","L","M",
                "N","O","P","Q","R","S","T","U","V","W","X","Y","Z">>

UpperChar(c) ==
    IF \E i \in 1..26 : LowerChars[i] = c
    THEN UpperChars[CHOOSE i \in 1..26 : LowerChars[i] = c]
    ELSE c

\* str.upper()
\* the text is compared as it was typed
Upper_same(s) == s

Upper(s) == [i \in 1..Len(s) |-> UpperChar(s[i])]

\* str.strip()
Strip(s) ==
    LET keep == {i \in 1..Len(s) : s[i] \notin Whitespace}
    IN  IF keep = {} THEN << >>
        ELSE LET lo == CHOOSE i \in keep : \A j \in keep : i <= j
                 hi == CHOOSE i \in keep : \A j \in keep : i >= j
             IN  SubSeq(s, lo, hi)

\* str.startswith(p)
StartsWith(s, p) == Len(s) >= Len(p) /\ SubSeq(s, 1, Len(p)) = p

\* str.isdigit()
IsDigit(s) == Len(s) > 0 /\ \A i \in 1..Len(s) : s[i] \in Digits

\* s[:n]
Prefix(s, n) == SubSeq(s, 1, IF Len(s) < n THEN Len(s) ELSE n)

HTTP == <<"h","t","t","p",":","/","/">>

HTTPS == <<"h","t","t","p","s",":","/","/">>

\* text.startswith("http://") or text.startswith("https://")
IsHttpUrl(s) == StartsWith(s, HTTP) \/ StartsWith(s, HTTPS)

DigitVal(c) == CHOOSE n \in 0..9 : <<"0","1","2","3","4","5","6","7","8","9">>[n + 1] = c

RECURSIVE DecVal(_)
DecVal(s) == IF s = << >> THEN 0
             ELSE 10 * DecVal(SubSeq(s, 1, Len(s) - 1)) + DigitVal(s[Len(s)])

\* str(n) of a non-negative int
RECURSIVE IntStr(_)
IntStr(n) ==
    LET d == <<"0","1","2","3","4","5","6","7","8","9">>[(n % 10) + 1]
    IN  IF n < 10 THEN << d >> ELSE IntStr(n \div 10) \o << d >>

\* float(text) succeeds: digits with at most one '.', at least one digit
\* (signs, exponents, "nan" and "inf" are outside the inputs of this model)
IsFloat(s) ==
    LET dots == {i \in 1..Len(s) : s[i] = "."}
    IN  /\ Cardinality(dots) <= 1
        /\ \A i \in 1..Len(s) : s[i] \in Digits \cup {"."}
        /\ \E i \in 1..Len(s) : s[i] \in Digits

\* the fraction digits are cut off, not rounded
RoundTenths_truncate(s) ==
    LET dots == {i \in 1..Len(s) : s[i] = "."}
        d    == IF dots = {} THEN Len(s) + 1 ELSE CHOOSE i \in dots : TRUE
        ip   == SubSeq(s, 1, d - 1)
        fp   == SubSeq(s, d + 1, Len(s))
    IN  10 * DecVal(ip) + (IF fp = << >> THEN 0 ELSE DigitVal(fp[1]))

\* round(float(text), 1) in tenths, for texts with at most two fraction digits
\* of which the second is not 5 (which way a decimal tie goes depends on the
\* binary value of the float)
RoundTenths(s) ==
    LET dots == {i \in 1..Len(s) : s[i] = "."}
        d    == IF dots = {} THEN Len(s) + 1 ELSE CHOOSE i \in dots : TRUE
        ip   == SubSeq(s, 1, d - 1)
        fp   == SubSeq(s, d + 1, Len(s))
    IN  10 * DecVal(ip) + (IF fp = << >> THEN 0 ELSE DigitVal(fp[1]))
                        + (IF Len(fp) > 1 /\ DigitVal(fp[2]) > 5 THEN 1 ELSE 0)

\* f"{x:.1f}" of a value held in tenths
FormatTenths(v) == IntStr(v \div 10) \o << "." >> \o IntStr(v % 10)

NA == <<"N","/","A">>

LowerChar(c) ==
    IF \E i \in 1..26 : UpperChars[i] = c
    THEN LowerChars[CHOOSE i \in 1..26 : UpperChars[i] = c]
    ELSE c

IsLetter(c) == \E i \in 1..26 : LowerChars[i] = c \/ UpperChars[i] = c

\* str.title(): a letter that follows a non-letter is upper-cased, every
\* other letter is lower-cased
Title(s) ==
    [i \in 1..Len(s) |->
        IF i = 1 \/ ~IsLetter(s[i - 1]) THEN UpperChar(s[i]) ELSE LowerChar(s[i])]

\* str.split(sep) for a one-character separator
RECURSIVE Split(_, _)
Split(s, sep) ==
    LET hits == {i \in 1..Len(s) : s[i] = sep}
    IN  IF hits = {} THEN << s >>
        ELSE LET i == CHOOSE h \in hits : \A j \in hits : h <= j
             IN  << SubSeq(s, 1, i - 1) >> \o Split(SubSeq(s, i + 1, Len(s)), sep)

\* Python truthiness of a str
Truthy(s) == s # << >>

(***************************************************************************)
(* Inputs: the texts a user sends and the records the metadata provider    *)
(* returns                                                                 *)
(***************************************************************************)
T_url == <<" ","h","t","t","p","s",":","/","/","x">>

T_http == <<"h","t","t","p",":","/","/","y">>

T_year == <<"1","9","9","9">>

T_word == <<"H","d",","," ","w","e","b">>

T_done == <<"d","o","n","e">>

T_na == <<"n","/","a">>

Texts == {T_url, T_http, T_year, T_word, T_done, T_na}

\* get_tmdb_details returned None (nothing truthy)
NoDetails == EmptyDict

MovieRec ==
    [title |-> <<"U","p">>,
     release_date |-> <<"2","0","0","9","-","0","5","-","2","9">>,
     vote_average |-> 83,
     poster_path |-> <<"/","p">>]

TvRec ==
    [name |-> <<"L","o","s","t">>,
     first_air_date |-> <<"2","0","0","4","-","0","9","-","2","2">>]

(***************************************************************************)
(* Artifact generators                                                     *)
(***************************************************************************)
NoYear == <<"-","-","-","-">>

\* data.get(a, data.get(b, default)): a key that is there wins, empty or not
FirstTruthy_present(data, a, b, default) ==
    IF Has(data, a) THEN data[a]
    ELSE IF Has(data, b) THEN data[b]
    ELSE default

\* data.get(a) or data.get(b) or default
FirstTruthy(data, a, b, default) ==
    IF Has(data, a) /\ Truthy(data[a]) THEN data[a]
    ELSE IF Has(data, b) /\ Truthy(data[b]) THEN data[b]
    ELSE default

OVERVIEW_LIMIT == 400

Ellipsis == <<".",".",".">>

NoPlot == <<"N","o"," ","p","l","o","t">>

OutOfTen == <<"/","1","0">>

\* the parts generate_formatted_caption renders from the record (runtime, cast
\* and similar titles come only from provider fields the records here lack)
generate_formatted_caption(data) ==
    LET overview == GetOr(data, "overview", NoPlot)
    IN  [title    |-> FirstTruthy(data, "title", "name", NA),
         year     |-> Prefix(FirstTruthy(data, "release_date", "first_air_date", NoYear), 4),
         rating   |-> FormatTenths(GetOr(data, "vote_average", 0)) \o OutOfTen,
         genres   |-> IF GetOr(data, "genres", << >>) = << >> THEN << NA >>
                      ELSE [i \in 1..Len(data["genres"]) |-> data["genres"][i]["name"]],
         language |-> Title(GetOr(data, "custom_language", << >>)),
         plot     |-> Prefix(overview, OVERVIEW_LIMIT)
                        \o (IF Len(overview) > OVERVIEW_LIMIT THEN Ellipsis ELSE << >>)]

DEFAULT_AD_LINK == <<"h","t","t","p","s",":","/","/","g">>

TMDB_W500 == <<"w","5","0","0">>

NoPoster == <<"p","l","a","c","e","h","o","l","d","e","r">>

\* the blocks come out last link first
DownloadBlocks_reversed(links) ==
    [i \in 1..Len(links) |->
        [url |-> links[Len(links) + 1 - i]["url"],
         label |-> links[Len(links) + 1 - i]["label"]]]

\* one download block per link, in list order
DownloadBlocks(links) ==
    [i \in 1..Len(links) |-> [url |-> links[i]["url"], label |-> links[i]["label"]]]

generate_html(data, links, ad_link) ==
    [title   |-> FirstTruthy(data, "title", "name", NA),
     year    |-> Prefix(FirstTruthy(data, "release_date", "first_air_date", NoYear), 4),
     poster  |-> IF Has(data, "manual_poster_url") /\ Truthy(data["manual_poster_url"])
                 THEN data["manual_poster_url"]
                 ELSE IF Has(data, "poster_path") /\ Truthy(data["poster_path"])
                 THEN TMDB_W500 \o data["poster_path"]
                 ELSE NoPoster,
     blocks  |-> DownloadBlocks(links),
     ad_link |-> ad_link]

generate_filedl_html(title, links_list) ==
    [title   |-> title,
     buttons |-> [i \in 1..Len(links_list) |->
                    [href |-> links_list[i]["url"], text |-> links_list[i]["label"]]]]

(***************************************************************************)
(* The paste upload                                                        *)
(***************************************************************************)
\* Python's None where a str is expected (no text is equal to it)
None == <<"None">>

\* what requests.post does: a response with status 200/201, a response with
\* another status, a connection error raised, a timeout raised
NetOutcomes == {"success", "bad_status", "conn_error", "timeout"}

\* requests.post raised (ConnectionError and Timeout are both Exceptions)
Raised(outcome) == outcome \in {"conn_error", "timeout"}

\* response.status_code == 201 or response.status_code == 200
StatusOk(outcome) == outcome = "success"

\* response.text of the paste service: the URL of the paste and a newline
PasteBody == <<"h","t","t","p","s",":","/","/","d","\n">>

\* `except Exception` catches what requests.post raises
Caught(outcome) == outcome \in {"conn_error", "timeout"}

\* the call is recorded with the requests it made, in order, what it returned,
\* and whether an exception left it
NoPaste == [called |-> FALSE, attempts |-> << >>, url |-> None, raised |-> FALSE]

\* the HTTP request is made whenever the HTTPS request gave no URL, and once
\* more after an HTTPS request that did
create_paste_link_retry_always(content, https, http) ==
    [called |-> TRUE, attempts |-> << "https", "http" >>,
     url |-> IF StatusOk(https) \/ StatusOk(http) THEN Strip(PasteBody) ELSE None,
     raised |-> FALSE]

\* create_paste_link(content) when the HTTPS request ends as https and the HTTP
\* request, if one is made, ends as http; content is falsy when it is empty
create_paste_link(content, https, http) ==
    IF content = << >>
    THEN [called |-> TRUE, attempts |-> << >>, url |-> None, raised |-> FALSE]
    ELSE IF ~Raised(https)
    THEN [called |-> TRUE, attempts |-> << "https" >>,
          url |-> IF StatusOk(https) THEN Strip(PasteBody) ELSE None,
          raised |-> FALSE]
    ELSE IF ~Caught(https)
    THEN [called |-> TRUE, attempts |-> << "https" >>, url |-> None, raised |-> TRUE]
    ELSE [called |-> TRUE, attempts |-> << "https", "http" >>,
          url |-> IF ~Raised(http) /\ StatusOk(http) THEN Strip(PasteBody) ELSE None,
          raised |-> Raised(http) /\ ~Caught(http)]

\* the link branch is taken whatever create_paste_link returned
PasteLinkTruthy_always(url) == TRUE

\* `if paste_link:`
PasteLinkTruthy(url) == url # None /\ Truthy(url)

(***************************************************************************)
(* The metadata search                                                     *)
(***************************************************************************)
\* the text matches \s*\(?(\d{4})\)?$ from its first character: white space,
\* an optional "(", four digits, an optional ")", and the end of the text (or
\* the newline that ends it)
YearTail(r) ==
    LET ws == {i \in 1..Len(r) : \A j \in 1..i : r[j] \in Whitespace}
        a  == SubSeq(r, Cardinality(ws) + 1, Len(r))
        b  == IF a # << >> /\ a[1] = "(" THEN Tail(a) ELSE a
    IN  /\ Len(b) >= 4
        /\ \A i \in 1..4 : b[i] \in Digits
        /\ SubSeq(b, 5, Len(b)) \in {<< >>, << ")" >>, << "\n" >>, << ")", "\n" >>}

\* group 2 of a text that matches YearTail
YearDigits(r) ==
    LET i == CHOOSE i \in 1..Len(r) : r[i] \in Digits /\ \A j \in 1..(i - 1) : r[j] \notin Digits
    IN  SubSeq(r, i, i + 3)

\* the year group is tried from every position, also inside a longer run of
\* digits
YearMatch(query) ==
    LET \* group 1 is query[s..k-1]: at least one character, none a newline
        Fits(s, k) == /\ \A i \in s..(k - 1) : query[i] # "\n"
                      /\ YearTail(SubSeq(query, k, Len(query)))
        starts == {s \in 1..Len(query) : \E k \in (s + 1)..Len(query) : Fits(s, k)}
    IN  IF starts = {} THEN [found |-> FALSE, name |-> << >>, year |-> << >>]
        ELSE LET s == CHOOSE s \in starts : \A t \in starts : s <= t
                 ends == {k \in (s + 1)..Len(query) : Fits(s, k)}
                 \* (.+?) is lazy: the shortest group 1 that lets the rest match
                 k == CHOOSE k \in ends : \A l \in ends : k <= l
             IN  [found |-> TRUE, name |-> SubSeq(query, s, k - 1),
                  year |-> YearDigits(SubSeq(query, k, Len(query)))]

\* results[:15]
MAX_RESULTS == 15

\* search_tmdb(query) when the request ends as outcome and the provider answers
\* with results of the media types in provided: the search term and the year
\* filter of the request URL (None when there is none), and the list returned
search_tmdb(query, outcome, provided) ==
    LET match == YearMatch(query)
        name  == IF match.found THEN Strip(match.name) ELSE Strip(query)
        year  == IF match.found THEN match.year ELSE None
        kept  == SelectSeq(provided, LAMBDA t : t \in {"movie", "tv"})
    IN  [name |-> name,
         year |-> year,
         results |-> IF StatusOk(outcome) THEN Prefix(kept, MAX_RESULTS) ELSE << >>,
         raised |-> FALSE]

(***************************************************************************)
(* Resolving an identifier                                                 *)
(***************************************************************************)
TMDB_HOST == <<"t","h","e","m","o","v","i","e","d","b",".","o","r","g">>

MediaKinds == {<<"m","o","v","i","e">>, <<"t","v">>}

\* the longest run of digits that starts at position i
DigitRun(q, i) ==
    LET ends == {k \in i..Len(q) : \A j \in i..k : q[j] \in Digits}
    IN  SubSeq(q, i, i + Cardinality(ends) - 1)

\* re.search(r"themoviedb\.org/(movie|tv)/(\d+)", q): the leftmost match
UrlMatch(q) ==
    LET Lead(kind) == TMDB_HOST \o <<"/">> \o kind \o <<"/">>
        At(i, kind) == /\ StartsWith(SubSeq(q, i, Len(q)), Lead(kind))
                       /\ DigitRun(q, i + Len(Lead(kind))) # << >>
        hits == {i \in 1..Len(q) : \E kind \in MediaKinds : At(i, kind)}
    IN  IF hits = {} THEN [found |-> FALSE, kind |-> << >>, digits |-> << >>]
        ELSE LET i    == CHOOSE h \in hits : \A j \in hits : h <= j
                 kind == CHOOSE k \in MediaKinds : At(i, k)
             IN  [found |-> TRUE, kind |-> kind,
                  digits |-> DigitRun(q, i + Len(Lead(kind)))]

\* re.search(r"(tt\d+)", q): the leftmost match
ImdbMatch(q) ==
    LET hits == {i \in 1..Len(q) : /\ StartsWith(SubSeq(q, i, Len(q)), <<"t","t">>)
                                   /\ DigitRun(q, i + 2) # << >>}
    IN  IF hits = {} THEN [found |-> FALSE, id |-> << >>]
        ELSE LET i == CHOOSE h \in hits : \A j \in hits : h <= j
             IN  [found |-> TRUE, id |-> <<"t","t">> \o DigitRun(q, i + 2)]

\* (None, None)
Unresolved == [found |-> FALSE, kind |-> << >>, id |-> 0, looked_up |-> FALSE]

Resolved(kind, id, looked_up) ==
    [found |-> TRUE, kind |-> kind, id |-> id, looked_up |-> looked_up]

\* query.split("/") names a kind and an id
Shorthand(q) ==
    LET parts == Split(q, "/")
    IN  IF /\ \E i \in 1..Len(q) : q[i] = "/"
           /\ Len(parts) = 2
           /\ parts[1] \in MediaKinds
           /\ IsDigit(parts[2])
        THEN Resolved(parts[1], DecVal(parts[2]), FALSE)
        ELSE Unresolved

\* extract_tmdb_id(query); find is how the request of the find endpoint ends
\* and what it answers: status, movie_results and tv_results (lists of ids).
\* found = FALSE is the pair (None, None)
extract_tmdb_id(raw, find) ==
    LET query == Strip(raw)
        url   == UrlMatch(query)
        imdb  == ImdbMatch(query)
    IN  IF url.found THEN Resolved(url.kind, DecVal(url.digits), FALSE)
        ELSE IF imdb.found /\ ~StatusOk(find.status)
        THEN [Unresolved EXCEPT !.looked_up = TRUE]
        ELSE IF imdb.found /\ find.movie_results # << >>
        THEN Resolved(<<"m","o","v","i","e">>, find.movie_results[1], TRUE)
        ELSE IF imdb.found /\ find.tv_results # << >>
        THEN Resolved(<<"t","v">>, find.tv_results[1], TRUE)
        ELSE [Shorthand(query) EXCEPT !.looked_up = imdb.found]

(***************************************************************************)
(* The image compositor                                                    *)
(***************************************************************************)
\* how the steps of one generate_image call end: the poster request, opening
\* the poster bytes as an image, the backdrop step (its request, or opening and
\* blurring what it returned), the language ribbon, and the text drawing and
\* PNG encoding at the end
ImageEnvs ==
    [poster   : NetOutcomes,
     open     : {"ok", "bad_image"},
     backdrop : NetOutcomes \cup {"bad_image"},
     ribbon   : {"ok", "font_error"},
     compose  : {"ok", "error"}]

\* every step but the poster request goes well
PosterOnly(fetched) ==
    [poster |-> IF fetched THEN "success" ELSE "conn_error", open |-> "ok",
     backdrop |-> "success", ribbon |-> "ok", compose |-> "ok"]

\* `except requests.exceptions.RequestException` around the manual poster
\* request
ManualPosterCaught(outcome) == outcome \in {"conn_error", "timeout"}

\* the backdrop step raised: the request did, or the image could not be opened
BackdropRaised(outcome) == outcome \in {"conn_error", "timeout", "bad_image"}

\* `except Exception` around the backdrop step
BackdropCaught(outcome) == outcome \in {"conn_error", "timeout", "bad_image"}

\* no try around the ribbon
RibbonCaught_none(outcome) == FALSE

\* `except Exception` around the ribbon
RibbonCaught(outcome) == outcome = "font_error"

\* the outer `except Exception` of generate_image: every exception of the
\* steps is an Exception
ImageCaught(escaped) == escaped

\* generate_image(data): the buffer it returns ("png") or None, whether an
\* exception left it, and whether the backdrop and the ribbon are in the image
generate_image(data, env) ==
    LET manual   == Truthy(GetOr(data, "manual_poster_url", << >>))
        path     == ~manual /\ Truthy(GetOr(data, "poster_path", << >>))
        \* the request of the poster_path branch is inside the outer try only
        fetch_escaped == \/ path /\ Raised(env.poster)
                         \/ manual /\ Raised(env.poster) /\ ~ManualPosterCaught(env.poster)
        poster_bytes  == (manual \/ path) /\ ~Raised(env.poster) /\ StatusOk(env.poster)
        opened   == poster_bytes /\ env.open = "ok"
        backdrop == opened /\ Truthy(GetOr(data, "backdrop_path", << >>))
        backdrop_escaped == backdrop /\ BackdropRaised(env.backdrop)
                              /\ ~BackdropCaught(env.backdrop)
        ribbon   == opened /\ ~backdrop_escaped
                      /\ Truthy(Title(GetOr(data, "custom_language", << >>)))
        ribbon_escaped == ribbon /\ env.ribbon # "ok" /\ ~RibbonCaught(env.ribbon)
        composed == opened /\ ~backdrop_escaped /\ ~ribbon_escaped /\ env.compose = "ok"
        escaped  == \/ fetch_escaped
                    \/ poster_bytes /\ ~opened
                    \/ backdrop_escaped
                    \/ ribbon_escaped
                    \/ opened /\ ~backdrop_escaped /\ ~ribbon_escaped /\ ~composed
    IN  [result   |-> IF composed THEN "png" ELSE "None",
         raised   |-> escaped /\ ~ImageCaught(escaped),
         backdrop |-> composed /\ backdrop /\ StatusOk(env.backdrop),
         ribbon   |-> composed /\ ribbon /\ env.ribbon = "ok"]

(***************************************************************************)
(* State                                                                   *)
(***************************************************************************)
VARIABLES
    user_conversations,  \* dict: user id -> session dict
    user_ad_links,       \* dict: user id -> ad link
    user_channels,       \* dict: user id -> main channel
    keyboards,           \* per chat, the inline keyboards that are still live
    last,                \* the last event and what its handler did
    loop,                \* the handler that holds the event loop in a blocking call
    user_promo_config,   \* dict: user id -> promo settings of the channel post
    USER_AD_LINKS_FILE,  \* what user_ad_links.json holds
    USER_PROMO_CONFIG_FILE, \* what user_promo_config.json holds
    awaiting             \* dict: user id -> the handler of that user that is
                         \* suspended at an await, and the record it generated

vars == <<user_conversations, user_ad_links, user_channels, keyboards, last, loop,
          user_promo_config, USER_AD_LINKS_FILE, USER_PROMO_CONFIG_FILE, awaiting>>

\* the promo settings and the two files
stores == <<user_promo_config, USER_AD_LINKS_FILE, USER_PROMO_CONFIG_FILE>>

HasSession(u) == Has(user_conversations, u)

StateOf(u) == IF HasSession(u) THEN user_conversations[u]["state"] ELSE "no_session"

\* what a handler run is recorded as: the event, the user it is attributed to,
\* the owner id in a button payload (the chat, for a sel_ button), the state of
\* the owner's session before the event, the text sent, the state handler the
\* router chose, the reply, whether the artifact generators ran, and which part
\* of a cached bundle was sent; paste is the create_paste_link call the handler
\* made and content is what it delivered to the user (a caption or an HTML)
NoContent == EmptyDict

\* send_channel_post did not run
NoAuto == [outcome |-> "none"]

ClickEvent(ev, clicker, owner, reply, gen, dispatch) ==
    [ev |-> ev, user |-> clicker, owner |-> owner, from |-> StateOf(owner),
     text |-> << >>, handler |-> "none", reply |-> reply, gen |-> gen,
     dispatch |-> dispatch, paste |-> NoPaste, content |-> NoContent,
     auto |-> NoAuto]

TextEvent(u, raw, handler, reply, dispatch) ==
    [ev |-> "text", user |-> u, owner |-> u, from |-> StateOf(u), text |-> raw,
     handler |-> handler, reply |-> reply, gen |-> FALSE, dispatch |-> dispatch,
     paste |-> NoPaste, content |-> NoContent,
     auto |-> NoAuto]

CommandEvent(ev, u, reply) ==
    [ev |-> ev, user |-> u, owner |-> u, from |-> StateOf(u), text |-> << >>,
     handler |-> "none", reply |-> reply, gen |-> FALSE, dispatch |-> "none",
     paste |-> NoPaste, content |-> NoContent,
     auto |-> NoAuto]

\* no handler is inside a blocking call
Idle == [running |-> 0, ev |-> "none", step |-> "none"]

\* A handler is a coroutine on the one event loop of the bot.  It runs when no
\* handler is inside a blocking call; the handler that made a blocking call
\* (requests.get / requests.post are synchronous and never yield to the loop)
\* runs on when the call returns, and the loop is free when it ends.
LoopStep(u, ev) ==
    /\ \/ loop.running = 0
       \/ loop.running = u /\ loop.ev = ev
    /\ loop' = Idle

NoKeyboards == [addlink |-> 0, final |-> 0, post |-> FALSE, sel |-> FALSE]

Init ==
    /\ user_conversations = EmptyDict
    /\ user_ad_links = EmptyDict
    /\ user_channels = EmptyDict
    /\ keyboards = [u \in Users |-> NoKeyboards]
    /\ last = [CommandEvent("boot", 0, "none") EXCEPT !.from = "no_session"]
    /\ loop = Idle
    /\ user_promo_config = EmptyDict
    /\ USER_AD_LINKS_FILE = EmptyDict
    /\ USER_PROMO_CONFIG_FILE = EmptyDict
    /\ awaiting = EmptyDict

\* a message carrying the two add-link buttons is sent to chat u
IssueAddLink(kb, u) ==
    [kb EXCEPT ![u].addlink = IF @ < MaxKeyboards THEN @ + 1 ELSE @]

\* edit_text without reply_markup removes the keyboard of the clicked message
ConsumeAddLink(kb, u) == [kb EXCEPT ![u].addlink = @ - 1]

(***************************************************************************)
(* Commands                                                                *)
(***************************************************************************)
\* /start leaves the session where it is
start_command_keeps(u) ==
    /\ UNCHANGED user_conversations
    /\ last' = CommandEvent("start", u, "welcome")
    /\ UNCHANGED <<user_ad_links, user_channels, keyboards>>
    /\ UNCHANGED stores
    /\ UNCHANGED awaiting
    /\ LoopStep(u, "start")

\* user_conversations.pop(message.from_user.id, None)
start_command(u) ==
    /\ user_conversations' = Del(user_conversations, u)
    /\ last' = CommandEvent("start", u, "welcome")
    /\ UNCHANGED <<user_ad_links, user_channels, keyboards>>
    /\ UNCHANGED stores
    /\ UNCHANGED awaiting
    /\ LoopStep(u, "start")

\* the session is reset, not deleted
cancel_command_resets(u) ==
    /\ IF HasSession(u)
       THEN /\ user_conversations' = Put(user_conversations, u, [state |-> "idle"])
            /\ last' = CommandEvent("cancel", u, "cancelled")
       ELSE /\ UNCHANGED user_conversations
            /\ last' = CommandEvent("cancel", u, "nothing_to_cancel")
    /\ UNCHANGED <<user_ad_links, user_channels, keyboards>>
    /\ UNCHANGED stores
    /\ UNCHANGED awaiting
    /\ LoopStep(u, "cancel")

cancel_command(u) ==
    /\ IF HasSession(u)
       THEN /\ user_conversations' = Del(user_conversations, u)
            /\ last' = CommandEvent("cancel", u, "cancelled")
       ELSE /\ UNCHANGED user_conversations
            /\ last' = CommandEvent("cancel", u, "nothing_to_cancel")
    /\ UNCHANGED <<user_ad_links, user_channels, keyboards>>
    /\ UNCHANGED stores
    /\ UNCHANGED awaiting
    /\ LoopStep(u, "cancel")

\* int(text) succeeds: digits after an optional sign
IsInt(s) ==
    \/ IsDigit(s)
    \/ Len(s) > 1 /\ s[1] \in {"-", "+"} /\ IsDigit(Tail(s))

\* int(text)
IntVal(s) ==
    IF s[1] = "-" THEN 0 - DecVal(Tail(s))
    ELSE IF s[1] = "+" THEN DecVal(Tail(s))
    ELSE DecVal(s)

\* /setchannel [arg]: has_arg is len(message.command) > 1, arg is command[1]
set_channel_command(u, has_arg, arg) ==
    /\ IF ~has_arg
       THEN /\ UNCHANGED user_channels
            /\ last' = CommandEvent("setchannel", u, "usage")
       ELSE IF StartsWith(arg, << "@" >>)
       THEN /\ user_channels' = Put(user_channels, u, arg)
            /\ last' = CommandEvent("setchannel", u, "set")
       ELSE IF IsInt(arg)
       THEN /\ user_channels' = Put(user_channels, u, IntVal(arg))
            /\ last' = CommandEvent("setchannel", u, "set")
       ELSE /\ UNCHANGED user_channels
            /\ last' = CommandEvent("setchannel", u, "invalid")
    /\ UNCHANGED <<user_conversations, user_ad_links, keyboards>>
    /\ UNCHANGED stores
    /\ UNCHANGED awaiting
    /\ LoopStep(u, "setchannel")

\* json.dump(map, f): the keys of a JSON object are strings, so an int user id
\* is written as its decimal text; the values are written as they are (a
\* successful write: the IOError branch only logs and leaves the file as it was)
json_dump(map) ==
    [k \in {IntStr(u) : u \in DOMAIN map} |->
        map[CHOOSE u \in DOMAIN map : IntStr(u) = k]]

\* {int(k): v for k, v in json.load(f).items()}
json_load(file) ==
    [u \in {DecVal(k) : k \in DOMAIN file} |->
        file[CHOOSE k \in DOMAIN file : DecVal(k) = u]]

\* the HTML of the user's bundle is rewritten with the new ad link
set_ad_link_command_regenerates(u, has_arg, arg) ==
    /\ IF has_arg /\ IsHttpUrl(arg)
       THEN /\ user_ad_links' = Put(user_ad_links, u, arg)
            /\ USER_AD_LINKS_FILE' = json_dump(user_ad_links')
            /\ user_conversations' =
                 IF HasSession(u) /\ Has(user_conversations[u], "generated")
                 THEN [user_conversations EXCEPT ![u]["generated"]["html"]["ad_link"] = arg]
                 ELSE user_conversations
            /\ last' = [CommandEvent("setadlink", u, "set") EXCEPT !.text = arg]
       ELSE /\ UNCHANGED <<user_ad_links, user_conversations, USER_AD_LINKS_FILE>>
            /\ last' = [CommandEvent("setadlink", u, "usage") EXCEPT !.text = arg]
    /\ UNCHANGED <<user_channels, keyboards, user_promo_config, USER_PROMO_CONFIG_FILE>>
    /\ UNCHANGED awaiting
    /\ LoopStep(u, "setadlink")

\* the argument is stored whatever it starts with
set_ad_link_command_any(u, has_arg, arg) ==
    /\ IF has_arg
       THEN /\ user_ad_links' = Put(user_ad_links, u, arg)
            /\ USER_AD_LINKS_FILE' = json_dump(user_ad_links')
            /\ last' = [CommandEvent("setadlink", u, "set") EXCEPT !.text = arg]
       ELSE /\ UNCHANGED <<user_ad_links, USER_AD_LINKS_FILE>>
            /\ last' = [CommandEvent("setadlink", u, "usage") EXCEPT !.text = arg]
    /\ UNCHANGED <<user_conversations, user_channels, keyboards, user_promo_config,
                   USER_PROMO_CONFIG_FILE>>
    /\ UNCHANGED awaiting
    /\ LoopStep(u, "setadlink")

\* /setadlink [arg]; save_user_ad_links() rewrites the file
set_ad_link_command(u, has_arg, arg) ==
    /\ IF has_arg /\ IsHttpUrl(arg)
       THEN /\ user_ad_links' = Put(user_ad_links, u, arg)
            /\ USER_AD_LINKS_FILE' = json_dump(user_ad_links')
            /\ last' = [CommandEvent("setadlink", u, "set") EXCEPT !.text = arg]
       ELSE /\ UNCHANGED <<user_ad_links, USER_AD_LINKS_FILE>>
            /\ last' = [CommandEvent("setadlink", u, "usage") EXCEPT !.text = arg]
    /\ UNCHANGED <<user_conversations, user_channels, keyboards, user_promo_config,
                   USER_PROMO_CONFIG_FILE>>
    /\ UNCHANGED awaiting
    /\ LoopStep(u, "setadlink")

\* user_promo_config after get_user_promo_config(u): an absent entry is created
\* empty
get_user_promo_config(u) ==
    IF Has(user_promo_config, u) THEN user_promo_config
    ELSE Put(user_promo_config, u, EmptyDict)

\* config[key] = value on the entry get_user_promo_config returned
SetPromo(u, key, value) ==
    LET config == get_user_promo_config(u)
    IN  Put(config, u, Put(config[u], key, value))

\* /setpromochannel [arg]: the entry is fetched (and created) before the
\* argument is parsed, and the invalid-format branch returns before
\* save_promo_config()
set_promo_channel_command(u, has_arg, arg) ==
    /\ IF ~has_arg
       THEN /\ UNCHANGED <<user_promo_config, USER_PROMO_CONFIG_FILE>>
            /\ last' = CommandEvent("setpromochannel", u, "usage")
       ELSE IF StartsWith(arg, << "@" >>)
       THEN /\ user_promo_config' = SetPromo(u, "channel", arg)
            /\ USER_PROMO_CONFIG_FILE' = json_dump(user_promo_config')
            /\ last' = CommandEvent("setpromochannel", u, "set")
       ELSE IF IsInt(arg)
       THEN /\ user_promo_config' = SetPromo(u, "channel", IntVal(arg))
            /\ USER_PROMO_CONFIG_FILE' = json_dump(user_promo_config')
            /\ last' = CommandEvent("setpromochannel", u, "set")
       ELSE /\ user_promo_config' = get_user_promo_config(u)
            /\ UNCHANGED USER_PROMO_CONFIG_FILE
            /\ last' = CommandEvent("setpromochannel", u, "invalid")
    /\ UNCHANGED <<user_conversations, user_ad_links, user_channels, keyboards,
                   USER_AD_LINKS_FILE>>
    /\ UNCHANGED awaiting
    /\ LoopStep(u, "setpromochannel")

\* /setpromoname [name]: name is message.text.split(" ", 1)[1]
set_promo_name_command(u, has_arg, name) ==
    /\ IF has_arg
       THEN /\ user_promo_config' = SetPromo(u, "name", name)
            /\ USER_PROMO_CONFIG_FILE' = json_dump(user_promo_config')
            /\ last' = CommandEvent("setpromoname", u, "set")
       ELSE /\ UNCHANGED <<user_promo_config, USER_PROMO_CONFIG_FILE>>
            /\ last' = CommandEvent("setpromoname", u, "usage")
    /\ UNCHANGED <<user_conversations, user_ad_links, user_channels, keyboards,
                   USER_AD_LINKS_FILE>>
    /\ UNCHANGED awaiting
    /\ LoopStep(u, "setpromoname")

\* the body shared by /setwatchlink, /setdownloadlink and /setrequestlink:
\* only an https:// argument is stored
SetPromoLink(u, ev, key, has_arg, arg) ==
    /\ IF has_arg /\ StartsWith(arg, HTTPS)
       THEN /\ user_promo_config' = SetPromo(u, key, arg)
            /\ USER_PROMO_CONFIG_FILE' = json_dump(user_promo_config')
            /\ last' = CommandEvent(ev, u, "set")
       ELSE /\ UNCHANGED <<user_promo_config, USER_PROMO_CONFIG_FILE>>
            /\ last' = CommandEvent(ev, u, "usage")
    /\ UNCHANGED <<user_conversations, user_ad_links, user_channels, keyboards,
                   USER_AD_LINKS_FILE>>
    /\ UNCHANGED awaiting
    /\ LoopStep(u, ev)

set_watch_link_command(u, has_arg, arg) ==
    SetPromoLink(u, "setwatchlink", "watch_link", has_arg, arg)

set_download_link_command(u, has_arg, arg) ==
    SetPromoLink(u, "setdownloadlink", "download_link", has_arg, arg)

set_request_link_command(u, has_arg, arg) ==
    SetPromoLink(u, "setrequestlink", "request_link", has_arg, arg)

\* a session that exists is put back to the first manual state, fields kept
manual_add_command_keeps(u) ==
    /\ user_conversations' =
         Put(user_conversations, u,
             IF HasSession(u)
             THEN Put(user_conversations[u], "state", "manual_wait_title")
             ELSE [state |-> "manual_wait_title", details |-> EmptyDict,
                   links |-> << >>])
    /\ last' = CommandEvent("manual", u, "prompt")
    /\ UNCHANGED <<user_ad_links, user_channels, keyboards>>
    /\ UNCHANGED stores
    /\ UNCHANGED awaiting
    /\ LoopStep(u, "manual")

manual_add_command(u) ==
    /\ user_conversations' =
         Put(user_conversations, u,
             [state |-> "manual_wait_title", details |-> EmptyDict, links |-> << >>])
    /\ last' = CommandEvent("manual", u, "prompt")
    /\ UNCHANGED <<user_ad_links, user_channels, keyboards>>
    /\ UNCHANGED stores
    /\ UNCHANGED awaiting
    /\ LoopStep(u, "manual")

filedl_command(u) ==
    /\ user_conversations' =
         Put(Del(user_conversations, u), u,
             [state |-> "filedl_wait_title", data |-> [links |-> << >>]])
    /\ last' = CommandEvent("filedl", u, "prompt")
    /\ UNCHANGED <<user_ad_links, user_channels, keyboards>>
    /\ UNCHANGED stores
    /\ UNCHANGED awaiting
    /\ LoopStep(u, "filedl")

\* the session a successful lookup creates (/details, /post by id, sel_ click)
NewSelection(details) ==
    [details |-> details, links |-> << >>, state |-> "wait_custom_language"]

\* a lookup that returned nothing is taken for a record
LookupFailed_never(details) == FALSE

\* not details
LookupFailed(details) == details = NoDetails

\* /details <type>_<id>: parsed is whether the argument split into a type and
\* an id; details is what get_tmdb_details returned
details_command_handler(u, parsed, details) ==
    /\ IF ~parsed
       THEN /\ UNCHANGED user_conversations
            /\ last' = CommandEvent("details", u, "invalid_selection")
       ELSE IF LookupFailed(details)
       THEN /\ UNCHANGED user_conversations
            /\ last' = CommandEvent("details", u, "lookup_failed")
       ELSE /\ user_conversations' = Put(user_conversations, u, NewSelection(details))
            /\ last' = CommandEvent("details", u, "prompt")
    /\ UNCHANGED <<user_ad_links, user_channels, keyboards>>
    /\ UNCHANGED stores
    /\ UNCHANGED awaiting
    /\ LoopStep(u, "details")

\* if media_type and media_id
IdentifierGiven(ref) == ref.found /\ Truthy(ref.kind) /\ ref.id # 0

\* what one /post did: the query, the identifier extract_tmdb_id returned,
\* whether get_tmdb_details and search_tmdb were called
PostTrace(find, ref, detailed, searched) ==
    [find |-> find, ref |-> ref, detailed |-> detailed, searched |-> searched]

\* /post <query>: has_arg is whether a query was given; find is the answer of
\* the find endpoint; details is what get_tmdb_details returned; found is
\* whether search_tmdb had results
post_command_handler(u, has_arg, query, find, details, found) ==
    LET ref == extract_tmdb_id(query, find)
        Event(reply, detailed, searched) ==
            [CommandEvent("post", u, reply)
               EXCEPT !.text = query, !.content = PostTrace(find, ref, detailed, searched)]
    IN
    /\ IF ~has_arg
       THEN /\ UNCHANGED <<user_conversations, keyboards>>
            /\ last' = CommandEvent("post", u, "usage")
       ELSE IF IdentifierGiven(ref)
       THEN IF LookupFailed(details)
            THEN /\ UNCHANGED <<user_conversations, keyboards>>
                 /\ last' = Event("lookup_failed", TRUE, FALSE)
            ELSE /\ user_conversations' =
                      Put(user_conversations, u, NewSelection(details))
                 /\ UNCHANGED keyboards
                 /\ last' = Event("prompt", TRUE, FALSE)
       ELSE IF ~found
            THEN /\ UNCHANGED <<user_conversations, keyboards>>
                 /\ last' = Event("no_results", FALSE, TRUE)
            ELSE /\ UNCHANGED user_conversations
                 /\ keyboards' = [keyboards EXCEPT ![u].sel = TRUE]
                 /\ last' = Event("select", FALSE, TRUE)
    /\ UNCHANGED <<user_ad_links, user_channels>>
    /\ UNCHANGED stores
    /\ UNCHANGED awaiting
    /\ LoopStep(u, "post")

\* the session goes to the chat the result list was shown in
SelectionUser_chat(clicker, chat) == chat

\* user_id = cb.from_user.id
SelectionUser(clicker, chat) == clicker

\* a click on a sel_ button of the result list shown in chat `chat`, by clicker
selection_callback(clicker, chat, details) ==
    /\ keyboards[chat].sel
    /\ keyboards' = [keyboards EXCEPT ![chat].sel = FALSE]
    /\ IF LookupFailed(details)
       THEN /\ UNCHANGED user_conversations
            /\ last' = ClickEvent("sel", clicker, chat, "lookup_failed", FALSE, "none")
       ELSE /\ user_conversations' =
                 Put(user_conversations, SelectionUser(clicker, chat),
                     NewSelection(details))
            /\ last' = ClickEvent("sel", clicker, chat, "prompt", FALSE, "none")
    /\ UNCHANGED <<user_ad_links, user_channels>>
    /\ UNCHANGED stores
    /\ UNCHANGED awaiting
    /\ LoopStep(clicker, "sel")

(***************************************************************************)
(* State handlers for plain text.  Each returns what it did to the session *)
(* dict `convo`: the dict afterwards, whether the session was popped, the  *)
(* reply, whether an add-link keyboard was sent, and what was dispatched.  *)
(* reply = "error" is an exception that left the handler (a KeyError).     *)
(***************************************************************************)
Result(convo, pop, reply, issue, dispatch) ==
    [convo |-> convo, pop |-> pop, reply |-> reply, issue |-> issue,
     dispatch |-> dispatch, paste |-> NoPaste, content |-> NoContent]

Replied(convo, reply) == Result(convo, FALSE, reply, FALSE, "none")

\* the inner dict is replaced by one that holds only the new key
PutIn_replace(convo, outer, key, value) == Put(convo, outer, Put(EmptyDict, key, value))

\* convo[outer][key] = value
PutIn(convo, outer, key, value) == Put(convo, outer, Put(convo[outer], key, value))

SetState(convo, state) == Put(convo, "state", state)

filedl_title_handler(convo, raw) ==
    LET title == Strip(raw)
    IN  IF ~Has(convo, "data") THEN Replied(convo, "error")
        ELSE Replied(SetState(PutIn(convo, "data", "title", title),
                              "filedl_wait_btn_name"), "prompt")

Sentinels == {<<"D","O","N","E">>, <<"F","I","N","I","S","H">>, <<"O","K">>,
              <<"E","N","D">>, <<"S","E","S">>}

\* a sentinel is accepted with no button collected
NoButtons_never(links) == FALSE

\* not data["links"]
NoButtons(links) == links = << >>

\* https, http: how the requests of create_paste_link end
filedl_name_handler(convo, raw, https, http) ==
    LET text == Strip(raw)
        final_html == generate_filedl_html(convo["data"]["title"],
                                           convo["data"]["links"])
        paste == create_paste_link(final_html, https, http)
    IN  IF Upper(text) \in Sentinels
        THEN IF ~Has(convo, "data") \/ ~Has(convo["data"], "links")
             THEN Replied(convo, "error")
             ELSE IF NoButtons(convo["data"]["links"])
             THEN Replied(convo, "no_buttons")
             ELSE IF ~Has(convo["data"], "title")
             THEN Replied(convo, "error")
             ELSE [Result(convo, TRUE, "code",  FALSE,
                          IF PasteLinkTruthy(paste.url) THEN "filedl_link"
                          ELSE "filedl_file")
                   EXCEPT !.paste = paste, !.content = final_html]
        ELSE Replied(SetState(Put(convo, "temp_btn_name", text),
                              "filedl_wait_btn_url"), "prompt")

\* the pending label stays on the session
TakeLabel_keep(convo, key) == convo

\* del convo["current_label"], del user_conversations[user_id]["temp_btn_name"]
TakeLabel(convo, key) == Del(convo, key)

\* url.startswith("http://") or url.startswith("https://")
ButtonUrlAccepted(url) == IsHttpUrl(url)

filedl_url_handler(convo, raw) ==
    LET url == Strip(raw)
    IN  IF ~ButtonUrlAccepted(url) THEN Replied(convo, "invalid")
        ELSE IF ~Has(convo, "temp_btn_name") \/ ~Has(convo, "data")
                \/ ~Has(convo["data"], "links")
        THEN Replied(convo, "error")
        ELSE Replied(
               SetState(
                 TakeLabel(PutIn(convo, "data", "links",
                                 Append(convo["data"]["links"],
                                        [label |-> convo["temp_btn_name"], url |-> url])),
                           "temp_btn_name"),
                 "filedl_wait_btn_name"),
               "prompt")

\* the scheme check is missing
LinkUrlAccepted_any(text) == TRUE

\* text.startswith("http://") or text.startswith("https://")
LinkUrlAccepted(text) == IsHttpUrl(text)

link_conversation_handler(convo, raw) ==
    LET text == Strip(raw)
    IN  IF convo["state"] = "wait_link_label"
        THEN Replied(SetState(Put(convo, "current_label", text), "wait_link_url"),
                     "prompt")
        ELSE IF convo["state"] = "wait_link_url"
        THEN IF ~LinkUrlAccepted(text) THEN Replied(convo, "invalid")
             ELSE IF ~Has(convo, "links") \/ ~Has(convo, "current_label")
             THEN Replied(convo, "error")
             ELSE Result(
                    SetState(
                      TakeLabel(Put(convo, "links",
                                    Append(convo["links"],
                                           [label |-> convo["current_label"], url |-> text])),
                                "current_label"),
                      "ask_another"),
                    FALSE, "prompt", TRUE, "none")
        ELSE Replied(convo, "none")

language_conversation_handler(convo, raw) ==
    IF ~Has(convo, "details") THEN Replied(convo, "error")
    ELSE Replied(SetState(PutIn(convo, "details", "custom_language", Strip(raw)),
                          "wait_quality"), "prompt")

quality_conversation_handler(convo, raw) ==
    IF ~Has(convo, "details") THEN Replied(convo, "error")
    ELSE Result(SetState(PutIn(convo, "details", "custom_quality", Strip(raw)),
                         "ask_links"),
                FALSE, "prompt", TRUE, "none")

\* nothing is appended to the year
DateSuffix_none == << >>

\* f"{text}-01-01"
DateSuffix == <<"-","0","1","-","0","1">>

\* [{"name": g.strip()} for g in text.split(",")]
GenreList(text) ==
    LET parts == Split(text, ",")
    IN  [i \in 1..Len(parts) |-> [name |-> Strip(parts[i])]]

\* text.isdigit() and len(text) == 4
YearAccepted(text) == IsDigit(text) /\ Len(text) = 4

\* the scheme check is missing
PosterUrlAccepted_any(text) == TRUE

\* text.startswith("http://") or text.startswith("https://")
PosterUrlAccepted(text) == IsHttpUrl(text)

manual_conversation_handler(convo, raw) ==
    LET text  == Strip(raw)
        state == convo["state"]
        \* convo["details"][key] = value; convo["state"] = next
        Store(key, value, next) ==
            IF ~Has(convo, "details") THEN Replied(convo, "error")
            ELSE Replied(SetState(PutIn(convo, "details", key, value), next), "prompt")
    IN  CASE state = "manual_wait_title" ->
               Store("title", text, "manual_wait_year")
          [] state = "manual_wait_year" ->
               IF YearAccepted(text)
               THEN Store("release_date", text \o DateSuffix, "manual_wait_overview")
               ELSE Replied(convo, "invalid")
          [] state = "manual_wait_overview" ->
               Store("overview", text, "manual_wait_genres")
          [] state = "manual_wait_genres" ->
               Store("genres", GenreList(text), "manual_wait_rating")
          [] state = "manual_wait_rating" ->
               IF Upper(text) = NA
               THEN Store("vote_average", 0, "manual_wait_poster_url")
               ELSE IF IsFloat(text)
               THEN Store("vote_average", RoundTenths(text), "manual_wait_poster_url")
               ELSE Replied(convo, "invalid")
          [] state = "manual_wait_poster_url" ->
               IF PosterUrlAccepted(text)
               THEN Store("manual_poster_url", text, "wait_custom_language")
               ELSE Replied(convo, "invalid")
          [] OTHER -> Replied(convo, "none")

(***************************************************************************)
(* The text router                                                         *)
(***************************************************************************)
\* the handlers dict of conversation_text_handler, after the filedl branches
HandlerOf(state) ==
    CASE state = "filedl_wait_title" -> "filedl_title_handler"
      [] state = "filedl_wait_btn_name" -> "filedl_name_handler"
      [] state = "filedl_wait_btn_url" -> "filedl_url_handler"
      [] state = "done" -> "none"
      [] state \in {"manual_wait_title", "manual_wait_year", "manual_wait_overview",
                    "manual_wait_genres", "manual_wait_rating",
                    "manual_wait_poster_url"} -> "manual_conversation_handler"
      [] state = "wait_custom_language" -> "language_conversation_handler"
      [] state = "wait_quality" -> "quality_conversation_handler"
      [] state \in {"wait_link_label", "wait_link_url"} -> "link_conversation_handler"
      [] OTHER -> "waiting"

\* what the chosen handler does to the session dict
Dispatch(handler, convo, raw, https, http) ==
    CASE handler = "filedl_title_handler" -> filedl_title_handler(convo, raw)
      [] handler = "filedl_name_handler" -> filedl_name_handler(convo, raw, https, http)
      [] handler = "filedl_url_handler" -> filedl_url_handler(convo, raw)
      [] handler = "manual_conversation_handler" ->
            manual_conversation_handler(convo, raw)
      [] handler = "language_conversation_handler" ->
            language_conversation_handler(convo, raw)
      [] handler = "quality_conversation_handler" ->
            quality_conversation_handler(convo, raw)
      [] handler = "link_conversation_handler" -> link_conversation_handler(convo, raw)
      [] handler = "waiting" -> Replied(convo, "waiting")
      [] OTHER -> Replied(convo, "none")

conversation_text_handler(u, raw, https, http) ==
    /\ IF ~HasSession(u)
       THEN /\ UNCHANGED <<user_conversations, keyboards>>
            /\ last' = TextEvent(u, raw, "none", "start_hint", "none")
       ELSE LET convo   == user_conversations[u]
                handler == HandlerOf(convo["state"])
                r       == Dispatch(handler, convo, raw, https, http)
            IN  /\ user_conversations' =
                     IF r.pop THEN Del(user_conversations, u)
                     ELSE Put(user_conversations, u, r.convo)
                /\ keyboards' = IF r.issue THEN IssueAddLink(keyboards, u) ELSE keyboards
                /\ last' = [TextEvent(u, raw, handler, r.reply, r.dispatch)
                              EXCEPT !.paste = r.paste, !.content = r.content]
    /\ UNCHANGED <<user_ad_links, user_channels>>
    /\ UNCHANGED stores
    /\ UNCHANGED awaiting
    /\ LoopStep(u, "text")

(***************************************************************************)
(* Final content generation and the button callbacks                       *)
(***************************************************************************)
\* the rows of the action keyboard of a bundle
FinalButtons(u) ==
    {"get_html", "get_caption"}
      \cup (IF Has(user_channels, u) THEN {"post_channel"} ELSE {})

\* nothing is sent when there is no image
Delivery_photo_only(image, caption, buttons) ==
    IF image # "None"
    THEN [kind |-> "photo", warning |-> FALSE, caption |-> caption, buttons |-> buttons]
    ELSE [kind |-> "none", warning |-> FALSE, caption |-> << >>, buttons |-> {}]

\* send_photo with the caption, or send_message with the warning and the
\* caption; the same keyboard either way
Delivery(image, caption, buttons) ==
    IF image # "None"
    THEN [kind |-> "photo", warning |-> FALSE, caption |-> caption, buttons |-> buttons]
    ELSE [kind |-> "message", warning |-> TRUE, caption |-> caption, buttons |-> buttons]

\* the state is set without the bundle
StoreGenerated_state_only(convo, bundle) == SetState(convo, "done")

\* convo["generated"] = {...}; convo["state"] = "done"
StoreGenerated(convo, bundle) == SetState(Put(convo, "generated", bundle), "done")

\* generate_final_content on the session dict of user u: the dict afterwards,
\* whether the generators ran and what was sent to the user; fetched is whether
\* the poster could be fetched
generate_final_content(convo, u, fetched) ==
    IF ~Has(convo, "details") \/ ~Has(convo, "links")
    THEN [convo |-> convo, gen |-> Has(convo, "details"), reply |-> "error",
          sent |-> NoContent]
    ELSE LET caption == generate_formatted_caption(convo["details"])
             image   == generate_image(convo["details"], PosterOnly(fetched)).result
         IN  [convo |->
                StoreGenerated(convo,
                      [caption |-> caption,
                       html    |-> generate_html(convo["details"], convo["links"],
                                                 GetOr(user_ad_links, u, DEFAULT_AD_LINK)),
                       image   |-> image]),
              gen |-> TRUE,
              reply |-> "bundle",
              sent |-> Delivery(image, caption, FinalButtons(u))]

\* the message with the action buttons of a generated bundle is sent to chat u
IssueFinal(kb, u) ==
    [kb EXCEPT ![u].final = IF @ < MaxFinalKeyboards THEN @ + 1 ELSE @,
               ![u].post = @ \/ Has(user_channels, u)]

(***************************************************************************)
(* The automatic channel post                                              *)
(***************************************************************************)
PromoFields == {"name", "watch_link", "download_link", "request_link"}

\* the post goes out without a complete promo config
PromoComplete_any(promo) == TRUE

\* all(k in promo_config for k in [...])
PromoComplete(promo) == PromoFields \subseteq DOMAIN promo

\* not promo_config or not promo_config.get("channel"): no entry, an empty
\* entry, or an entry without a channel (a stored channel is a username or an
\* id other than 0)
NoPromoChannel(promo) == promo = EmptyDict \/ ~Has(promo, "channel")

\* a notice to the user instead of a post
AutoNotice(outcome) == [outcome |-> outcome]

\* the photo of the channel post: the manual poster URL, the provider's poster
\* URL, or the generated image of the session
PhotoToSend(convo) ==
    LET details == convo["details"]
    IN  IF Truthy(GetOr(details, "manual_poster_url", << >>)) THEN "manual_url"
        ELSE IF Truthy(GetOr(details, "poster_path", << >>)) THEN "poster_url"
        ELSE IF Has(convo, "generated") /\ convo["generated"].image # "None" THEN "image"
        ELSE "none"

\* send_channel_post(client, user_id, chat): convo is user_conversations.get
\* (the empty dict stands for None), promo is user_promo_config.get, delivered
\* is whether the send to the channel succeeded.  outcome "error" is the
\* TypeError or KeyError of convo["details"], which leaves the handler
send_channel_post(convo, promo, delivered) ==
    IF NoPromoChannel(promo) THEN AutoNotice("skipped")
    ELSE IF ~PromoComplete(promo) THEN AutoNotice("incomplete")
    ELSE IF ~Has(convo, "details") THEN AutoNotice("error")
    ELSE LET details == convo["details"]
         IN  [outcome  |-> IF delivered THEN "posted" ELSE "send_failed",
              title    |-> FirstTruthy(details, "title", "name", NA),
              year     |-> Prefix(FirstTruthy(details, "release_date", "first_air_date",
                                              NoYear), 4),
              language |-> GetOr(details, "custom_language", NA),
              quality  |-> GetOr(details, "custom_quality", NA),
              rating   |-> FormatTenths(GetOr(details, "vote_average", 0)) \o OutOfTen,
              photo    |-> PhotoToSend(convo),
              channel  |-> promo["channel"],
              promo    |-> [k \in PromoFields \cap DOMAIN promo |-> promo[k]]]

\* user_conversations.get(user_id), user_promo_config.get(user_id)
NoSession == EmptyDict

\* the owner check is missing
NotForYou_off(clicker, owner) == FALSE

\* cb.from_user.id != user_id
NotForYou(clicker, owner) == clicker # owner

\* the links collected so far are dropped when another one is asked for
AddLinkYes_reset(convo) == Put(SetState(convo, "wait_link_label"), "links", << >>)

\* convo["state"] = "wait_link_label"
AddLinkYes(convo) == SetState(convo, "wait_link_label")

\* a click on an addlink_<action>_<owner> button, by clicker
\* by clicker; fetched is whether the poster could be fetched, delivered whether
\* the send to the promo channel succeeded
add_link_callback(clicker, action, owner, fetched, delivered) ==
    /\ keyboards[owner].addlink > 0
    /\ IF NotForYou(clicker, owner)
       THEN /\ UNCHANGED <<user_conversations, keyboards>>
            /\ last' = ClickEvent(action, clicker, owner, "not_for_you", FALSE, "none")
       ELSE IF ~HasSession(owner)
       THEN /\ UNCHANGED <<user_conversations, keyboards>>
            /\ last' = ClickEvent(action, clicker, owner, "expired", FALSE, "none")
       ELSE IF action = "addlink_yes"
       THEN /\ user_conversations' =
                 Put(user_conversations, owner, AddLinkYes(user_conversations[owner]))
            /\ keyboards' = ConsumeAddLink(keyboards, owner)
            /\ last' = ClickEvent(action, clicker, owner, "prompt", FALSE, "none")
       ELSE LET g == generate_final_content(user_conversations[owner], owner, fetched)
            IN  /\ user_conversations' = Put(user_conversations, owner, g.convo)
                /\ keyboards' =
                     IF g.reply = "bundle"
                     THEN IssueFinal(ConsumeAddLink(keyboards, owner), owner)
                     ELSE ConsumeAddLink(keyboards, owner)
                /\ last' = [ClickEvent(action, clicker, owner, g.reply, g.gen, "none")
                              EXCEPT !.content = g.sent,
                                     !.auto = IF g.reply # "bundle" THEN NoAuto
                                              ELSE send_channel_post(
                                                     g.convo,
                                                     GetOr(user_promo_config, owner,
                                                           NoSession),
                                                     delivered)]
    /\ UNCHANGED <<user_ad_links, user_channels>>
    /\ UNCHANGED stores
    /\ UNCHANGED awaiting
    /\ LoopStep(clicker, action)

\* generated.get("html", "")
CachedHtml(generated) == GetOr(generated, "html", << >>)

\* generated["caption"]
CachedCaption(generated) == generated["caption"]

\* a click on a get_html / get_caption / post_channel button carrying owner's id
final_action_callback(clicker, action, owner, https, http) ==
    LET cached == /\ clicker = owner
                  /\ HasSession(owner)
                  /\ Has(user_conversations[owner], "generated")
        posted == cached /\ action = "post_channel" /\ Has(user_channels, owner)
        generated == user_conversations[owner]["generated"]
        html_code == CachedHtml(generated)
        paste == create_paste_link(html_code, https, http)
    IN
    /\ keyboards[owner].final > 0
    /\ action = "post_channel" => keyboards[owner].post
    /\ IF clicker # owner
       THEN last' = ClickEvent(action, clicker, owner, "not_for_you", FALSE, "none")
       ELSE IF ~cached
       THEN last' = ClickEvent(action, clicker, owner, "expired", FALSE, "none")
       ELSE IF action = "get_html"
       THEN IF PasteLinkTruthy(paste.url)
            THEN last' = [ClickEvent(action, clicker, owner, "code", FALSE, "html_link")
                            EXCEPT !.paste = paste, !.content = html_code]
            ELSE IF Has(user_conversations[owner], "details")
            THEN last' = [ClickEvent(action, clicker, owner, "code", FALSE, "html_file")
                            EXCEPT !.paste = paste, !.content = html_code]
            ELSE last' = [ClickEvent(action, clicker, owner, "error", FALSE, "none")
                            EXCEPT !.paste = paste]
       ELSE IF action = "get_caption"
       THEN last' = [ClickEvent(action, clicker, owner, "caption", FALSE, "caption")
                       EXCEPT !.content = CachedCaption(generated)]
       ELSE IF ~posted
       THEN last' = ClickEvent(action, clicker, owner, "no_channel", FALSE, "none")
       ELSE last' = ClickEvent(action, clicker, owner, "posted", FALSE, "channel")
    \* edit_message_reply_markup(None) after a successful channel post
    /\ keyboards' = IF posted THEN [keyboards EXCEPT ![owner].final = @ - 1]
                    ELSE keyboards
    /\ UNCHANGED <<user_conversations, user_ad_links, user_channels>>
    /\ UNCHANGED stores
    /\ UNCHANGED awaiting
    /\ LoopStep(clicker, action)

(***************************************************************************)
(* The environment: which events arrive                                    *)
(***************************************************************************)
\* the links list a URL would be appended to in the state of u (empty if none)
PendingLinks(u) ==
    IF ~HasSession(u) THEN << >>
    ELSE LET convo == user_conversations[u]
         IN  IF convo["state"] = "wait_link_url" THEN GetOr(convo, "links", << >>)
             ELSE IF convo["state"] = "filedl_wait_btn_url" /\ Has(convo, "data")
             THEN GetOr(convo["data"], "links", << >>)
             ELSE << >>

\* the texts user u is taken to send in its current state: every text where the
\* handler checks a format, one free text (and the sentinel) where it does not,
\* and no further URL once the session holds MaxLinks links
Offered(u) ==
    LET state == StateOf(u)
    IN  IF state \in {"manual_wait_year", "manual_wait_rating", "manual_wait_poster_url"}
        THEN Texts
        ELSE IF state \in {"wait_link_url", "filedl_wait_btn_url"}
        THEN {t \in Texts : Len(PendingLinks(u)) >= MaxLinks => ~IsHttpUrl(Strip(t))}
        ELSE IF state = "filedl_wait_btn_name"
        THEN {T_word, T_done}
        ELSE {T_word}

Lookups == {NoDetails, MovieRec, TvRec}

\* a kind/id shorthand
Q_short == <<"t","v","/","7">>

\* the find endpoint is not asked, or answers with nothing
NoFind == [status |-> "success", movie_results |-> << >>, tv_results |-> << >>]

\* the outcomes of a /post query: no argument; an identifier with or without
\* details; a name with or without search results
PostQueries ==
    {[has_arg |-> FALSE, query |-> << >>, find |-> NoFind, details |-> NoDetails,
      found |-> FALSE]}
    \cup {[has_arg |-> TRUE, query |-> Q_short, find |-> NoFind, details |-> d,
           found |-> FALSE] : d \in Lookups}
    \cup {[has_arg |-> TRUE, query |-> T_word, find |-> NoFind, details |-> NoDetails,
           found |-> f] : f \in BOOLEAN}

\* how the two requests of one create_paste_link call can end; the HTTP
\* outcome only matters when the HTTPS request raised
NoNet == [https |-> "success", http |-> "success"]

Nets ==
    {[https |-> h, http |-> "success"] : h \in {"success", "bad_status"}}
    \cup {[https |-> h, http |-> g] : h \in {"conn_error", "timeout"}, g \in NetOutcomes}

\* a text of user u reaches create_paste_link only as the sentinel of filedl
PasteNets(u, t) ==
    IF StateOf(u) = "filedl_wait_btn_name" /\ Upper(Strip(t)) \in Sentinels
    THEN Nets ELSE {NoNet}

AddLinkActions == {"addlink_yes", "addlink_no"}

FinalActions == {"get_html", "get_caption", "post_channel"}

\* the users whose commands and texts arrive in Spec; the other user only clicks
Drivers == {1}

Next ==
    \/ \E u \in Drivers : start_command(u)
    \/ \E u \in Drivers : cancel_command(u)
    \/ \E u \in Drivers : manual_add_command(u)
    \/ \E u \in Drivers : filedl_command(u)
    \/ \E u \in Drivers, d \in Lookups : details_command_handler(u, TRUE, d)
    \/ \E u \in Drivers : details_command_handler(u, FALSE, NoDetails)
    \/ \E u \in Drivers, q \in PostQueries :
          post_command_handler(u, q.has_arg, q.query, q.find, q.details, q.found)
    \/ \E c \in Drivers, o \in Users, d \in Lookups : selection_callback(c, o, d)
    \/ \E u \in Drivers : \E t \in Offered(u) : \E n \in PasteNets(u, t) :
          conversation_text_handler(u, t, n.https, n.http)
    \/ \E c, o \in Users, a \in AddLinkActions, f \in BOOLEAN :
          add_link_callback(c, a, o, f, TRUE)
    \/ \E c, o \in Users, a \in FinalActions :
          \E n \in (IF a = "get_html" /\ c = o THEN Nets ELSE {NoNet}) :
             final_action_callback(c, a, o, n.https, n.http)

Spec == Init /\ [][Next]_vars

(***************************************************************************)
(* Two users with sessions at the same time: besides the events of Spec,   *)
(* the other user clicks sel_ buttons (in either chat), which gives it a   *)
(* session of its own, and cancels.                                        *)
(***************************************************************************)
Others == Users \ Drivers

NextDuo ==
    \/ Next
    \/ \E c \in Others, o \in Users, d \in {NoDetails, MovieRec} :
          selection_callback(c, o, d)
    \/ \E u \in Others : cancel_command(u)

SpecDuo == Init /\ [][NextDuo]_vars

(***************************************************************************)
(* Link collection at length: one user collects up to MaxOrderedLinks      *)
(* links, with two labels and two URLs to tell them apart, in the          *)
(* selection flow and in the filedl flow, and asks for the HTML.           *)
(***************************************************************************)
OfferedLinks(u) ==
    LET state == StateOf(u)
    IN  IF state \in {"wait_link_url", "filedl_wait_btn_url"}
        THEN {t \in {T_url, T_http, T_word} :
                Len(PendingLinks(u)) >= MaxOrderedLinks => ~IsHttpUrl(Strip(t))}
        ELSE IF state = "wait_link_label" THEN {T_word, T_year}
        ELSE IF state = "filedl_wait_btn_name" THEN {T_word, T_year, T_done}
        ELSE {T_word}

NextLinks ==
    \/ \E u \in Drivers : cancel_command(u)
    \/ \E u \in Drivers : filedl_command(u)
    \/ \E u \in Drivers : details_command_handler(u, TRUE, MovieRec)
    \/ \E u \in Drivers : \E t \in OfferedLinks(u) :
          conversation_text_handler(u, t, NoNet.https, NoNet.http)
    \/ \E u \in Drivers, a \in AddLinkActions : add_link_callback(u, a, u, TRUE, TRUE)
    \/ \E u \in Drivers : final_action_callback(u, "get_html", u, NoNet.https, NoNet.http)

SpecLinks == Init /\ [][NextLinks]_vars

\* an upload succeeds, or both requests fail
ConfigNets == {NoNet, [https |-> "conn_error", http |-> "timeout"]}

(***************************************************************************)
(* The filedl flow with the sentinel typed in several ways, and an upload  *)
(* that succeeds or fails.                                                 *)
(***************************************************************************)
S_mixed == <<"O","k">>

S_upper == <<"F","I","N","I","S","H">>

S_pad == <<" ","e","N","d","\n">>

S_ses == <<"s","e","S">>

S_near == <<"d","o","n","e","s">>

OfferedFiledl(u) ==
    LET state == StateOf(u)
    IN  IF state = "filedl_wait_btn_url"
        THEN {t \in {T_url, T_http, T_word} :
                Len(PendingLinks(u)) >= MaxOrderedLinks => ~IsHttpUrl(Strip(t))}
        ELSE IF state = "filedl_wait_btn_name"
        THEN {T_word, T_done, S_mixed, S_upper, S_pad, S_ses, S_near}
        ELSE {T_word}

NextFiledl ==
    \/ \E u \in Drivers : cancel_command(u)
    \/ \E u \in Drivers : filedl_command(u)
    \/ \E u \in Drivers : \E t \in OfferedFiledl(u) : \E n \in ConfigNets :
          conversation_text_handler(u, t, n.https, n.http)

SpecFiledl == Init /\ [][NextFiledl]_vars

(***************************************************************************)
(* Configuration while a bundle is cached: one user builds a post from a   *)
(* lookup, and sets the ad link, the main channel and the promo            *)
(* configuration at any time; both users click the buttons.                *)
(***************************************************************************)
A_link == <<"h","t","t","p","s",":","/","/","a">>

A_word == <<"x">>

A_username == <<"@","c">>

A_id == <<"-","7">>

NextConfig ==
    \/ \E u \in Drivers : cancel_command(u)
    \/ \E u \in Drivers : details_command_handler(u, TRUE, MovieRec)
    \/ \E u \in Drivers : \E t \in Offered(u) :
          conversation_text_handler(u, t, NoNet.https, NoNet.http)
    \/ \E c, o \in Users, a \in AddLinkActions : add_link_callback(c, a, o, TRUE, TRUE)
    \/ \E c, o \in Users, a \in FinalActions :
          \E n \in (IF a = "get_html" /\ c = o THEN ConfigNets ELSE {NoNet}) :
             final_action_callback(c, a, o, n.https, n.http)
    \/ \E u \in Drivers, a \in {A_link, A_word} : set_ad_link_command(u, TRUE, a)
    \/ \E u \in Drivers : set_ad_link_command(u, FALSE, << >>)
    \/ \E u \in Drivers, a \in {A_username, A_id, A_word} :
          set_channel_command(u, TRUE, a)
    \/ \E u \in Drivers : set_channel_command(u, FALSE, << >>)
    \/ \E u \in Drivers : set_promo_name_command(u, TRUE, A_word)

SpecConfig == Init /\ [][NextConfig]_vars

(***************************************************************************)
(* The configuration commands and the two files: one user sets every       *)
(* setting and starts, feeds and cancels a manual post; the other sets an  *)
(* ad link and a promo channel.                                            *)
(***************************************************************************)
NextStores ==
    \/ \E u \in Drivers : start_command(u)
    \/ \E u \in Drivers : cancel_command(u)
    \/ \E u \in Drivers : manual_add_command(u)
    \/ \E u \in Drivers : conversation_text_handler(u, T_word, NoNet.https, NoNet.http)
    \/ \E u \in Users, a \in {A_link, A_word} : set_ad_link_command(u, TRUE, a)
    \/ \E u \in Drivers : set_ad_link_command(u, FALSE, << >>)
    \/ \E u \in Drivers, a \in {A_username, A_word} : set_channel_command(u, TRUE, a)
    \/ \E u \in Users, a \in {A_id, A_word} : set_promo_channel_command(u, TRUE, a)
    \/ \E u \in Drivers : set_promo_channel_command(u, FALSE, << >>)
    \/ \E u \in Drivers : set_promo_name_command(u, TRUE, A_word)
    \/ \E u \in Drivers, a \in {A_link, T_http} : set_watch_link_command(u, TRUE, a)
    \/ \E u \in Drivers : set_download_link_command(u, TRUE, A_link)
    \/ \E u \in Drivers : set_request_link_command(u, FALSE, << >>)

SpecStores == Init /\ [][NextStores]_vars

(***************************************************************************)
(* Network steps that take time: the handler of one user enters a blocking *)
(* call (the metadata lookup of /details, the poster fetch of              *)
(* generate_image, the upload of create_paste_link) and the call returns   *)
(* later, while the other user starts a manual post, sends texts and       *)
(* cancels.                                                                *)
(***************************************************************************)
NetSteps ==
    {[ev |-> "details", step |-> "lookup"],
     [ev |-> "addlink_no", step |-> "image"],
     [ev |-> "get_html", step |-> "paste"]}

\* the handler of event ev of user u has reached its requests call
AtNetworkCall(u, ev) ==
    CASE ev = "details" -> TRUE
      [] ev = "addlink_no" ->
            /\ keyboards[u].addlink > 0
            /\ HasSession(u)
            /\ Has(user_conversations[u], "details")
            /\ LET data == user_conversations[u]["details"]
               IN  \/ Has(data, "manual_poster_url") /\ Truthy(data["manual_poster_url"])
                   \/ Has(data, "poster_path") /\ Truthy(data["poster_path"])
      [] ev = "get_html" ->
            /\ keyboards[u].final > 0
            /\ HasSession(u)
            /\ Has(user_conversations[u], "generated")
      [] OTHER -> FALSE

\* the handler calls requests.get / requests.post and the loop waits with it
net_begin(u, ev, step) ==
    /\ loop.running = 0
    /\ AtNetworkCall(u, ev)
    /\ loop' = [running |-> u, ev |-> ev, step |-> step]
    /\ UNCHANGED <<user_conversations, user_ad_links, user_channels, keyboards, last, stores,
                   awaiting>>

NextLoop ==
    \/ \E u \in Drivers, n \in NetSteps : net_begin(u, n.ev, n.step)
    \/ \E u \in Drivers : details_command_handler(u, TRUE, MovieRec)
    \/ \E u \in Drivers : \E t \in Offered(u) :
          conversation_text_handler(u, t, NoNet.https, NoNet.http)
    \/ \E u \in Drivers, a \in AddLinkActions, f \in BOOLEAN :
          add_link_callback(u, a, u, f, TRUE)
    \/ \E u \in Drivers, n \in ConfigNets :
          final_action_callback(u, "get_html", u, n.https, n.http)
    \/ \E b \in Others : manual_add_command(b)
    \/ \E b \in Others : conversation_text_handler(b, T_word, NoNet.https, NoNet.http)
    \/ \E b \in Others : cancel_command(b)

SpecLoop == Init /\ [][NextLoop]_vars

(***************************************************************************)
(* Manual entry with years and genre lists of several shapes               *)
(***************************************************************************)
Y_pad == <<" ","2","0","2","4">>

Y_short == <<"1","9","9">>

Y_long == <<"1","9","9","9","9">>

Y_mixed == <<"1","9","a","9">>

G_gap == <<"a",",",",","b">>

G_tail == <<"a",",">>

R_tenths == <<"8",".","5">>

R_hundredths == <<"8",".","5","7">>

R_whole == <<"7">>

R_over == <<"1","1">>

R_NA == <<"N","/","a">>

OfferedManual(u) ==
    LET state == StateOf(u)
    IN  IF state = "manual_wait_year" THEN {T_year, Y_pad, Y_short, Y_long, Y_mixed}
        ELSE IF state = "manual_wait_genres" THEN {T_word, G_gap, G_tail}
        ELSE IF state = "manual_wait_rating" THEN {R_tenths, R_hundredths, R_whole, R_over, T_na, R_NA, T_word}
        ELSE IF state = "manual_wait_poster_url" THEN {T_url, T_word}
        ELSE {T_word}

NextManual ==
    \/ \E u \in Drivers : manual_add_command(u)
    \/ \E u \in Drivers : cancel_command(u)
    \/ \E u \in Drivers : \E t \in OfferedManual(u) :
          conversation_text_handler(u, t, NoNet.https, NoNet.http)

SpecManual == Init /\ [][NextManual]_vars

(***************************************************************************)
(* create_paste_link on its own: a content and the outcomes of its two     *)
(* requests arrive, and the function is applied to them.                   *)
(***************************************************************************)
\* the contents handed to create_paste_link: the empty text and HTML documents
Contents ==
    {<< >>}
    \cup {generate_filedl_html(t, << [label |-> T_word, url |-> Strip(u)] >>) :
            t \in {T_word, T_year}, u \in {T_url, T_http}}
    \cup {generate_html(d, << >>, DEFAULT_AD_LINK) : d \in {MovieRec, TvRec}}

PasteInput(content, https, http) ==
    [ev |-> "paste_input", content |-> content, https |-> https, http |-> http,
     paste |-> NoPaste]

InitPaste ==
    /\ user_conversations = EmptyDict
    /\ user_ad_links = EmptyDict
    /\ user_channels = EmptyDict
    /\ keyboards = [u \in Users |-> NoKeyboards]
    /\ \E c \in Contents, h, g \in NetOutcomes : last = PasteInput(c, h, g)
    /\ loop = Idle
    /\ user_promo_config = EmptyDict
    /\ USER_AD_LINKS_FILE = EmptyDict
    /\ USER_PROMO_CONFIG_FILE = EmptyDict
    /\ awaiting = EmptyDict

paste_call ==
    /\ last.ev = "paste_input"
    /\ last' = [last EXCEPT !.ev = "paste_call",
                            !.paste = create_paste_link(last.content, last.https,
                                                        last.http)]
    /\ UNCHANGED <<user_conversations, user_ad_links, user_channels, keyboards, loop, stores,
                   awaiting>>

paste_input ==
    /\ last.ev = "paste_call"
    /\ \E c \in Contents, h, g \in NetOutcomes : last' = PasteInput(c, h, g)
    /\ UNCHANGED <<user_conversations, user_ad_links, user_channels, keyboards, loop, stores,
                   awaiting>>

NextPaste == paste_call \/ paste_input

SpecPaste == InitPaste /\ [][NextPaste]_vars

(***************************************************************************)
(* generate_image on its own: a record and the ways its steps end arrive,  *)
(* and the function is applied to them.                                    *)
(***************************************************************************)
\* a provider record with a backdrop and a chosen language, one with a poster
\* only, a manual record, a manual record with a language, and one that names
\* no poster
ImageData ==
    {MovieRec @@ [backdrop_path |-> <<"/","b">>, custom_language |-> <<"h","i">>],
     MovieRec,
     [title |-> <<"U","p">>, manual_poster_url |-> A_link],
     [title |-> <<"U","p">>, manual_poster_url |-> A_link,
      custom_language |-> <<"h","i">>],
     TvRec}

ImageInput(data, env) ==
    [ev |-> "image_input", data |-> data, env |-> env,
     image |-> [result |-> "None", raised |-> FALSE, backdrop |-> FALSE,
                ribbon |-> FALSE]]

InitImage ==
    /\ user_conversations = EmptyDict
    /\ user_ad_links = EmptyDict
    /\ user_channels = EmptyDict
    /\ keyboards = [u \in Users |-> NoKeyboards]
    /\ \E d \in ImageData, e \in ImageEnvs : last = ImageInput(d, e)
    /\ loop = Idle
    /\ user_promo_config = EmptyDict
    /\ USER_AD_LINKS_FILE = EmptyDict
    /\ USER_PROMO_CONFIG_FILE = EmptyDict
    /\ awaiting = EmptyDict

image_call ==
    /\ last.ev = "image_input"
    /\ last' = [last EXCEPT !.ev = "image_call",
                            !.image = generate_image(last.data, last.env)]
    /\ UNCHANGED <<user_conversations, user_ad_links, user_channels, keyboards, loop, stores,
                   awaiting>>

image_input ==
    /\ last.ev = "image_call"
    /\ \E d \in ImageData, e \in ImageEnvs : last' = ImageInput(d, e)
    /\ UNCHANGED <<user_conversations, user_ad_links, user_channels, keyboards, loop, stores,
                   awaiting>>

NextImage == image_call \/ image_input

SpecImage == InitImage /\ [][NextImage]_vars

(***************************************************************************)
(* generate_formatted_caption on its own, on records that have or lack     *)
(* each field the caption reads.                                           *)
(***************************************************************************)
\* a dict that lacks key, or holds one of the values for it
Opt(key, values) == {EmptyDict} \cup {[k \in {key} |-> v] : v \in values}

\* an overview of n characters
Overview(n) == [i \in 1..n |-> IF i = n THEN "z" ELSE "a"]

CaptionData ==
    {a @@ b @@ c @@ d @@ e @@ f :
        a \in Opt("title", {<< >>, <<"U","p">>}),
        b \in Opt("name", {<<"L","o","s","t">>}),
        c \in Opt("release_date", {<< >>, <<"2","0","0","9","-","0","5","-","2","9">>,
                                    <<"1","9","9">>}),
        d \in Opt("first_air_date", {<<"2","0","0","4","-","0","9","-","2","2">>}),
        e \in Opt("overview", {<< >>, Overview(OVERVIEW_LIMIT),
                                Overview(OVERVIEW_LIMIT + 1)}),
        f \in Opt("vote_average", {0, 83, 100})}

CaptionInput(data) ==
    [ev |-> "caption_input", data |-> data,
     caption |-> generate_formatted_caption(EmptyDict)]

InitCaption ==
    /\ user_conversations = EmptyDict
    /\ user_ad_links = EmptyDict
    /\ user_channels = EmptyDict
    /\ keyboards = [u \in Users |-> NoKeyboards]
    /\ \E d \in CaptionData : last = CaptionInput(d)
    /\ loop = Idle
    /\ user_promo_config = EmptyDict
    /\ USER_AD_LINKS_FILE = EmptyDict
    /\ USER_PROMO_CONFIG_FILE = EmptyDict
    /\ awaiting = EmptyDict

caption_call ==
    /\ last.ev = "caption_input"
    /\ last' = [last EXCEPT !.ev = "caption_call",
                            !.caption = generate_formatted_caption(last.data)]
    /\ UNCHANGED <<user_conversations, user_ad_links, user_channels, keyboards, loop, stores,
                   awaiting>>

caption_input ==
    /\ last.ev = "caption_call"
    /\ \E d \in CaptionData : last' = CaptionInput(d)
    /\ UNCHANGED <<user_conversations, user_ad_links, user_channels, keyboards, loop, stores,
                   awaiting>>

NextCaption == caption_call \/ caption_input

SpecCaption == InitCaption /\ [][NextCaption]_vars

(***************************************************************************)
(* search_tmdb on its own, on queries with and without a year at the end.  *)
(***************************************************************************)
Q_bare == <<"U","p"," ","2","0","0","9">>

Q_paren == <<"U","p"," ","(","2","0","0","9",")">>

Q_plain == <<"U","p">>

Q_year_only == <<"2","0","1","2">>

Q_five == <<"U","p"," ","9","0","2","1","0">>

Q_six == <<"U","p","1","2","3","4","5","6">>

Q_three == <<"U","p"," ","2","0","0">>

Q_glued == <<"U","p","2","0","0","9">>

Q_wide == <<" ","U","p"," "," ","2","0","0","9">>

Q_two_years == <<"U","p"," ","2","0","4","9"," ","2","0","1","7">>

Q_inner == <<"2","0","0","9"," ","U","p">>

Q_open == <<"U","p"," ","(","2","0","0","9">>

Q_close == <<"U","p"," ","2","0","0","9",")">>

Queries ==
    {Q_bare, Q_paren, Q_plain, Q_year_only, Q_five, Q_six, Q_three, Q_glued, Q_wide,
     Q_two_years, Q_inner, Q_open, Q_close}

\* the media types of what the provider finds
Provided ==
    {<< >>, <<"movie">>, <<"person", "tv">>, [i \in 1..(MAX_RESULTS + 1) |-> "movie"]}

SearchInput(query, outcome, provided) ==
    [ev |-> "search_input", query |-> query, outcome |-> outcome,
     provided |-> provided,
     search |-> [name |-> << >>, year |-> None, results |-> << >>, raised |-> FALSE]]

InitSearch ==
    /\ user_conversations = EmptyDict
    /\ user_ad_links = EmptyDict
    /\ user_channels = EmptyDict
    /\ keyboards = [u \in Users |-> NoKeyboards]
    /\ \E q \in Queries, o \in NetOutcomes, f \in Provided : last = SearchInput(q, o, f)
    /\ loop = Idle
    /\ user_promo_config = EmptyDict
    /\ USER_AD_LINKS_FILE = EmptyDict
    /\ USER_PROMO_CONFIG_FILE = EmptyDict
    /\ awaiting = EmptyDict

search_call ==
    /\ last.ev = "search_input"
    /\ last' = [last EXCEPT !.ev = "search_call",
                            !.search = search_tmdb(last.query, last.outcome,
                                                   last.provided)]
    /\ UNCHANGED <<user_conversations, user_ad_links, user_channels, keyboards, loop, stores,
                   awaiting>>

search_input ==
    /\ last.ev = "search_call"
    /\ \E q \in Queries, o \in NetOutcomes, f \in Provided :
          last' = SearchInput(q, o, f)
    /\ UNCHANGED <<user_conversations, user_ad_links, user_channels, keyboards, loop, stores,
                   awaiting>>

NextSearch == search_call \/ search_input

SpecSearch == InitSearch /\ [][NextSearch]_vars

(***************************************************************************)
(* Properties                                                              *)
(***************************************************************************)
AskStates == {"ask_links", "ask_another"}

ManualStates == {"manual_wait_title", "manual_wait_year", "manual_wait_overview",
                 "manual_wait_genres", "manual_wait_rating", "manual_wait_poster_url"}

SelectionFamily == ManualStates \cup AskStates \cup
    {"wait_custom_language", "wait_quality", "wait_link_label", "wait_link_url", "done"}

FiledlFamily == {"filedl_wait_title", "filedl_wait_btn_name", "filedl_wait_btn_url"}

Clicks == AddLinkActions \cup FinalActions

\* the session of u enters state s in this step
Entered(u, s) == StateOf(u)' = s /\ StateOf(u) # s

\* C1: once a session is 'done', no text or button event for it runs the
\* artifact generators again or moves its state away from 'done'.
C1_GenerateOnce ==
    [][\A u \in Users :
         StateOf(u) = "done" =>
            /\ ~(last'.gen /\ last'.owner = u)
            /\ (last'.ev \in Clicks \cup {"text"} => StateOf(u)' = "done")]_vars

\* C2: /cancel leaves the user without an entry in user_conversations, and a
\* plain text that follows it is answered as for a user with no session: the
\* router chooses no state handler and changes nothing.
C2_CancelDeletes ==
    [][/\ last'.ev = "cancel" => ~Has(user_conversations', last'.user)
       /\ (last.ev = "cancel" /\ last'.ev = "text" /\ last'.user = last.user) =>
            /\ last'.handler = "none"
            /\ last'.reply = "start_hint"
            /\ last'.from = "no_session"
            /\ UNCHANGED user_conversations]_vars

\* C2 witness: a session that had reached 'done' was cancelled.
C2_Witness ==
    /\ last.ev = "cancel"
    /\ last.reply = "cancelled"
    /\ last.from = "done"
    /\ ~HasSession(last.user)

\* C3: every state change follows an edge of the documented machine, and an
\* add-link click outside the add-link decision states changes nothing.
C3_DocumentedEdges ==
    [][\A u \in Users :
         /\ Entered(u, "wait_link_label") => StateOf(u) \in AskStates
         /\ Entered(u, "wait_link_url") => StateOf(u) = "wait_link_label"
         /\ Entered(u, "ask_another") => StateOf(u) = "wait_link_url"
         /\ Entered(u, "wait_quality") => StateOf(u) = "wait_custom_language"
         /\ Entered(u, "ask_links") => StateOf(u) = "wait_quality"
         /\ Entered(u, "done") => StateOf(u) \in AskStates
         /\ (last'.ev \in AddLinkActions /\ last'.owner = u
               /\ StateOf(u) \notin AskStates) => UNCHANGED user_conversations]_vars

\* C4: whenever the artifact generators have run for a session, its details
\* hold a non-empty title or name.
C4_TitleBeforeGeneration ==
    last.gen =>
        FirstTruthy(user_conversations[last.owner]["details"], "title", "name", << >>)
            # << >>

\* C5: a click by someone other than the owner in the payload, or for an owner
\* without a session (for get_/post_: without a generated bundle), is answered
\* with a notice and changes no session, generates nothing, dispatches nothing.
C5_ForeignClickRejected ==
    [][(/\ last'.ev \in Clicks
        /\ \/ last'.user # last'.owner
           \/ ~HasSession(last'.owner)
           \/ /\ last'.ev \in FinalActions
              /\ ~Has(user_conversations[last'.owner], "generated"))
       => /\ last'.reply \in {"not_for_you", "expired"}
          /\ UNCHANGED user_conversations
          /\ ~last'.gen
          /\ last'.dispatch = "none"]_vars

\* C5 witness: another user clicked "no" on the owner's keyboard while the
\* owner was in the add-link decision state, and was turned away.
C5_Witness ==
    /\ last.ev = "addlink_no"
    /\ last.user # last.owner
    /\ last.reply = "not_for_you"
    /\ last.from = "ask_links"
    /\ StateOf(last.owner) = "ask_links"

\* C6: an event attributed to one user leaves the session of every other user
\* as it was (present or absent, and every field of it).
C6_OtherSessionsUntouched ==
    [][\A b \in Users :
         b # last'.user =>
            /\ HasSession(b)' = HasSession(b)
            /\ HasSession(b) => user_conversations'[b] = user_conversations[b]]_vars

\* C6 witness: user 2 clicked a sel_ button shown in user 1's chat and got a
\* session of its own while user 1 was deciding about links.
C6_Witness ==
    /\ last.ev = "sel"
    /\ last.user = 2
    /\ last.owner = 1
    /\ StateOf(1) = "ask_links"
    /\ StateOf(2) = "wait_custom_language"

\* the text does not have the format the state asks for
FailsFormatCheck(state, raw) ==
    LET text == Strip(raw)
    IN  \/ /\ state = "manual_wait_year"
           /\ ~(Len(text) = 4 /\ \A i \in 1..Len(text) : text[i] \in Digits)
        \/ /\ state = "manual_wait_rating"
           /\ ~(IsFloat(text) \/ Upper(text) = NA)
        \/ /\ state \in {"manual_wait_poster_url", "wait_link_url", "filedl_wait_btn_url"}
           /\ ~(StartsWith(text, HTTP) \/ StartsWith(text, HTTPS))

\* C7: a text that fails the format check of the state it arrives in leaves
\* every session as it was (state, details, links, pending label) and is
\* answered with the re-prompt.
C7_InvalidInputChangesNothing ==
    [][(last'.ev = "text" /\ FailsFormatCheck(last'.from, last'.text)) =>
          /\ UNCHANGED user_conversations
          /\ last'.reply = "invalid"]_vars

\* C7 witness: a text that is no URL arrived in 'wait_link_url' and the session
\* is still there, label pending.
C7_Witness ==
    /\ last.ev = "text"
    /\ last.from = "wait_link_url"
    /\ last.reply = "invalid"
    /\ StateOf(last.user) = "wait_link_url"
    /\ Has(user_conversations[last.user], "current_label")

\* C8: a session in the selection/manual family has 'details' and 'links', and
\* a session in the filedl family has 'data' with a links list.
C8_SessionMatchesState ==
    \A u \in Users :
        HasSession(u) =>
            LET convo == user_conversations[u]
            IN  /\ convo["state"] \in SelectionFamily =>
                      Has(convo, "details") /\ Has(convo, "links")
                /\ convo["state"] \in FiledlFamily =>
                      Has(convo, "data") /\ Has(convo["data"], "links")

\* C9: in an add-link decision state the owner's "yes" moves the session to
\* 'wait_link_label' with details and links as they were, the owner's "no" runs
\* the generators and leaves the session 'done' with a bundle, and a plain text
\* changes nothing.
C9_AddLinkDecision ==
    [][\A u \in Users :
         (StateOf(u) \in AskStates /\ last'.user = u /\ last'.owner = u) =>
            /\ last'.ev = "addlink_yes" =>
                 /\ StateOf(u)' = "wait_link_label"
                 /\ user_conversations'[u]["details"] = user_conversations[u]["details"]
                 /\ user_conversations'[u]["links"] = user_conversations[u]["links"]
            /\ last'.ev = "addlink_no" =>
                 /\ last'.gen
                 /\ StateOf(u)' = "done"
                 /\ Has(user_conversations'[u], "generated")
            /\ last'.ev = "text" => UNCHANGED user_conversations]_vars

\* C9 witness: the owner clicked "no" after adding a link and the session is
\* 'done' with its bundle.
C9_Witness ==
    /\ last.ev = "addlink_no"
    /\ last.user = last.owner
    /\ last.from = "ask_another"
    /\ last.gen
    /\ StateOf(last.owner) = "done"
    /\ Len(user_conversations[last.owner]["generated"]["html"]["blocks"]) > 0

\* C10: every link stored in a session ('links' and filedl 'data.links') has a
\* url that starts with "http://" or "https://".
C10_StoredUrlsHaveScheme ==
    \A u \in Users :
        HasSession(u) =>
            LET convo == user_conversations[u]
                stored == GetOr(convo, "links", << >>)
                            \o (IF Has(convo, "data")
                                THEN GetOr(convo["data"], "links", << >>) ELSE << >>)
            IN  \A i \in 1..Len(stored) :
                    \/ StartsWith(stored[i]["url"], HTTP)
                    \/ StartsWith(stored[i]["url"], HTTPS)

\* C10 witness: a session holds a link whose url was sent with the http scheme.
C10_Witness ==
    \E u \in Users :
        /\ HasSession(u)
        /\ Has(user_conversations[u], "links")
        /\ \E i \in 1..Len(user_conversations[u]["links"]) :
              StartsWith(user_conversations[u]["links"][i]["url"], HTTP)

\* the links list of a session dict: 'links', or 'data.links' in the filedl flow
LinksOf(convo) ==
    IF Has(convo, "links") THEN convo["links"]
    ELSE IF Has(convo, "data") THEN GetOr(convo["data"], "links", << >>)
    ELSE << >>

\* the label waiting for its URL
PendingLabel(convo) ==
    IF Has(convo, "current_label") THEN convo["current_label"]
    ELSE GetOr(convo, "temp_btn_name", << >>)

\* C11: while a session lasts its links list changes only by one entry appended
\* at the end, made of the pending label and the accepted URL text; the HTML
\* generated from a session has one download block per link, in list order,
\* each with the label and url of its link.
C11_LinksAppendInOrder ==
    [][\A u \in Users :
         /\ (HasSession(u) /\ HasSession(u)' /\ last'.ev \in Clicks \cup {"text"}) =>
              LET old == LinksOf(user_conversations[u])
                  new == LinksOf(user_conversations'[u])
              IN  \/ new = old
                  \/ /\ last'.ev = "text" /\ last'.user = u
                     /\ new = old \o << [label |-> PendingLabel(user_conversations[u]),
                                         url |-> Strip(last'.text)] >>
         /\ (last'.gen /\ last'.owner = u /\ last'.reply = "bundle") =>
              LET links  == user_conversations'[u]["links"]
                  blocks == user_conversations'[u]["generated"]["html"]["blocks"]
              IN  /\ Len(blocks) = Len(links)
                  /\ \A i \in 1..Len(links) :
                        /\ blocks[i]["url"] = links[i]["url"]
                        /\ blocks[i]["label"] = links[i]["label"]
         /\ (last'.ev = "text" /\ last'.user = u
               /\ last'.dispatch \in {"filedl_link", "filedl_file"}) =>
              LET links   == user_conversations[u]["data"]["links"]
                  buttons == last'.content["buttons"]
              IN  /\ Len(buttons) = Len(links)
                  /\ \A i \in 1..Len(links) :
                        /\ buttons[i]["href"] = links[i]["url"]
                        /\ buttons[i]["text"] = links[i]["label"]]_vars

\* C11 witness: two links with different labels and different URLs were added
\* and the HTML generated from them has two blocks, first link first.
C11_Witness ==
    /\ last.gen
    /\ last.reply = "bundle"
    /\ LET convo == user_conversations[last.owner]
       IN  /\ Len(convo["links"]) = 2
           /\ convo["links"][1]["url"] # convo["links"][2]["url"]
           /\ convo["links"][1]["label"] # convo["links"][2]["label"]
           /\ convo["generated"]["html"]["blocks"][1]["url"] = convo["links"][1]["url"]

\* the replies of a search (search_tmdb was called): a result list or "no results"
SearchReplies == {"select", "no_results"}

\* C12: a plain text reaches a state handler only when its sender has a session
\* that is not 'done'; with no session, or a 'done' one, it is answered as a
\* fresh search query.
C12_TextRoutedOrSearched ==
    last.ev = "text" =>
        /\ last.handler \notin {"none", "waiting"} =>
              last.from \notin {"no_session", "done"}
        /\ last.from \in {"no_session", "done"} => last.reply \in SearchReplies

\* C13: create_paste_link returns a URL or None and raises nothing; None when
\* no request got a success response, and None with no request at all for an
\* empty content; the first request is the HTTPS one, at most one HTTP request
\* follows, and none follows an HTTPS request that returned a URL.
C13_PasteLinkTotal ==
    last.ev = "paste_call" =>
        LET r == last.paste
        IN  /\ ~r.raised
            /\ r.url = None \/ IsHttpUrl(r.url)
            /\ (last.https # "success" /\ last.http # "success") => r.url = None
            /\ last.content = << >> => (r.url = None /\ r.attempts = << >>)
            /\ r.attempts # << >> => r.attempts[1] = "https"
            /\ Cardinality({i \in 1..Len(r.attempts) : r.attempts[i] = "http"}) <= 1
            /\ last.https = "success" =>
                  \A i \in 1..Len(r.attempts) : r.attempts[i] # "http"

\* C13 witness: the HTTPS request raised a connection error and the HTTP request
\* returned the URL.
C13_Witness ==
    /\ last.ev = "paste_call"
    /\ last.https = "conn_error"
    /\ last.http = "success"
    /\ last.paste.attempts = << "https", "http" >>
    /\ IsHttpUrl(last.paste.url)

\* C14: the HTTP retry is made exactly when the HTTPS request fails outright (a
\* connection error, or a response without a success status), and not when it
\* times out.
C14_RetryOnlyOnOutrightFailure ==
    (last.ev = "paste_call" /\ last.content # << >>) =>
        ((\E i \in 1..Len(last.paste.attempts) : last.paste.attempts[i] = "http")
            <=> last.https \in {"conn_error", "bad_status"})

LinkDispatches == {"html_link", "filedl_link"}

FileDispatches == {"html_file", "filedl_file"}

\* C15: a get_html click and a filedl 'done' step that reach the paste upload
\* deliver exactly one of a link message or a document; when the upload returned
\* None it is the document, holding the HTML that was handed to the upload, and
\* a link message is only sent with the URL the upload returned.
C15_LinkOrFile ==
    [][last'.paste.called =>
         LET html == IF last'.ev = "get_html"
                     THEN user_conversations[last'.owner]["generated"]["html"]
                     ELSE generate_filedl_html(
                            user_conversations[last'.user]["data"]["title"],
                            user_conversations[last'.user]["data"]["links"])
         IN  /\ last'.dispatch \in LinkDispatches \cup FileDispatches
             /\ last'.paste.url = None =>
                   (last'.dispatch \in FileDispatches /\ last'.content = html)
             /\ last'.dispatch \in LinkDispatches => IsHttpUrl(last'.paste.url)]_vars

\* C15 witness: both requests of the upload failed after a get_html click and
\* the cached HTML went out as a document.
C15_Witness ==
    /\ last.ev = "get_html"
    /\ last.paste.attempts = << "https", "http" >>
    /\ last.paste.url = None
    /\ last.dispatch = "html_file"
    /\ last.content = user_conversations[last.owner]["generated"]["html"]

ConfigEvents ==
    {"setadlink", "setchannel", "setpromochannel", "setpromoname", "setwatchlink",
     "setdownloadlink", "setrequestlink"}

PromptHandler(b) ==
    \/ manual_add_command(b)
    \/ cancel_command(b)
    \/ conversation_text_handler(b, T_word, NoNet.https, NoNet.http)

\* C17: while a network step of one user is outstanding (lookup, image fetch or
\* paste upload), a handler of any other user can run and send its prompt.
C17_SlowStepStallsNobody ==
    \A a \in Users :
        loop.running = a => \A b \in Users \ {a} : ENABLED PromptHandler(b)

\* the step is a fresh start: /manual, /filedl, or a lookup that succeeded
\* (/details, /post by identifier, a sel_ click)
FreshStart ==
    \/ last'.ev \in {"manual", "filedl"}
    \/ last'.ev \in {"details", "post", "sel"} /\ last'.reply = "prompt"

\* C18: a fresh start leaves its user with a new session: an empty links list,
\* no pending label, no generated bundle, and details that are empty (/manual)
\* or exactly what the lookup returned.
C18_FreshStartReplaces ==
    [][FreshStart =>
         /\ Has(user_conversations', last'.user)
         /\ LET convo == user_conversations'[last'.user]
            IN  /\ LinksOf(convo) = << >>
                /\ DOMAIN convo \in {{"state", "details", "links"}, {"state", "data"}}
                /\ Has(convo, "details") =>
                      convo["details"] \in {EmptyDict, MovieRec, TvRec}
                /\ Has(convo, "data") => DOMAIN convo["data"] = {"links"}]_vars

\* C18 witness: /manual arrived while the user held a finished session with a
\* bundle, and the session is now the empty manual one.
C18_Witness ==
    /\ last.ev = "manual"
    /\ last.from = "done"
    /\ user_conversations[last.user] =
         [state |-> "manual_wait_title", details |-> EmptyDict, links |-> << >>]

\* C19: in 'manual_wait_year' a text of exactly 4 digits moves the session to
\* 'manual_wait_overview' and stores release_date as the 4 digits followed by
\* "-01-01"; every other field of details is as before.
C19_YearNormalized ==
    [][(/\ last'.ev = "text"
        /\ last'.from = "manual_wait_year"
        /\ Len(last'.text) = 4
        /\ \A i \in 1..4 : last'.text[i] \in Digits) =>
          LET old == user_conversations[last'.user]["details"]
              new == user_conversations'[last'.user]["details"]
          IN  /\ user_conversations'[last'.user]["state"] = "manual_wait_overview"
              /\ new["release_date"] = last'.text \o <<"-","0","1","-","0","1">>
              /\ DOMAIN new = DOMAIN old \cup {"release_date"}
              /\ \A k \in DOMAIN old \ {"release_date"} : new[k] = old[k]]_vars

\* C19 witness: "1999" was sent in 'manual_wait_year'; the session waits for
\* the overview with release_date "1999-01-01" and its title still there.
C19_Witness ==
    /\ last.ev = "text"
    /\ last.from = "manual_wait_year"
    /\ last.text = T_year
    /\ StateOf(last.user) = "manual_wait_overview"
    /\ user_conversations[last.user]["details"]["release_date"] =
         <<"1","9","9","9","-","0","1","-","0","1">>
    /\ Has(user_conversations[last.user]["details"], "title")

NonEmptySegment(part) == Strip(part) # << >>

\* the non-empty comma-delimited segments of a text, trimmed, in input order
TrimmedSegments(text) ==
    LET kept == SelectSeq(Split(text, ","), NonEmptySegment)
    IN  [i \in 1..Len(kept) |-> Strip(kept[i])]

\* C20: in 'manual_wait_genres' the stored genre list has one entry per
\* non-empty comma-delimited segment of the text, trimmed, in input order.
C20_GenresAreNonEmptySegments ==
    [][(last'.ev = "text" /\ last'.from = "manual_wait_genres") =>
          LET genres   == user_conversations'[last'.user]["details"]["genres"]
              expected == TrimmedSegments(last'.text)
          IN  /\ Len(genres) = Len(expected)
              /\ \A i \in 1..Len(expected) : genres[i]["name"] = expected[i]]_vars

\* one hundred times the value of a decimal text with at most two fraction
\* digits
Hundredths(s) ==
    LET dots == {i \in 1..Len(s) : s[i] = "."}
        d    == IF dots = {} THEN Len(s) + 1 ELSE CHOOSE i \in dots : TRUE
        fp   == SubSeq(s, d + 1, Len(s))
    IN  100 * DecVal(SubSeq(s, 1, d - 1))
          + (IF Len(fp) > 0 THEN 10 * DecVal(<< fp[1] >>) ELSE 0)
          + (IF Len(fp) > 1 THEN DecVal(<< fp[2] >>) ELSE 0)

\* the rating a session holds, in tenths
StoredRating(u) == user_conversations[u]["details"]["vote_average"]

\* C21: in 'manual_wait_rating' a number outside 0.0 .. 10.0 is answered with
\* the re-prompt and changes nothing, and so the vote_average of a manually
\* entered record is always within 0.0 .. 10.0.
C21_RatingWithinRange ==
    /\ [](\A u \in Users :
            (HasSession(u) /\ Has(user_conversations[u], "details")
               /\ Has(user_conversations[u]["details"], "vote_average"))
              => StoredRating(u) \in 0..100)
    /\ [][(/\ last'.ev = "text"
           /\ last'.from = "manual_wait_rating"
           /\ IsFloat(Strip(last'.text))
           /\ Hundredths(Strip(last'.text)) > 1000) =>
             /\ last'.reply = "invalid"
             /\ UNCHANGED user_conversations]_vars

\* the text of a rendered rating: a number with exactly one fraction digit,
\* followed by "/10"; the number is returned in hundredths
RenderedHundredths(r) ==
    LET num == SubSeq(r, 1, Len(r) - 3)
    IN  IF /\ Len(r) >= 6
           /\ SubSeq(r, Len(r) - 2, Len(r)) = <<"/","1","0">>
           /\ IsFloat(num)
           /\ num[Len(num) - 1] = "."
        THEN Hundredths(num)
        ELSE 0 - 1

\* C22: in 'manual_wait_rating' the token N/A in any letter case is stored as
\* 0.0 and any other accepted number is stored rounded to one decimal place
\* (within 0.05 of the number sent, a whole number of tenths); the caption
\* renders the stored rating with exactly one decimal.
C22_RatingNormalized ==
    [][(/\ last'.ev = "text"
        /\ last'.from = "manual_wait_rating"
        /\ last'.reply = "prompt") =>
          LET text   == Strip(last'.text)
              stored == user_conversations'[last'.user]["details"]["vote_average"]
              shown  == generate_formatted_caption(
                            user_conversations'[last'.user]["details"]).rating
          IN  /\ Upper(text) = <<"N","/","A">> => stored = 0
              /\ Upper(text) # <<"N","/","A">> =>
                    /\ 10 * stored - Hundredths(text) \in -5..5
              /\ RenderedHundredths(shown) = 10 * stored]_vars

\* C22 witness: "8.5" was sent in 'manual_wait_rating'; 8.5 is stored and the
\* caption shows "8.5/10".
C22_Witness ==
    /\ last.ev = "text"
    /\ last.from = "manual_wait_rating"
    /\ last.text = R_tenths
    /\ StateOf(last.user) = "manual_wait_poster_url"
    /\ StoredRating(last.user) = 85
    /\ generate_formatted_caption(user_conversations[last.user]["details"]).rating
         = <<"8",".","5","/","1","0">>

ManualOrder ==
    <<"manual_wait_title", "manual_wait_year", "manual_wait_overview",
      "manual_wait_genres", "manual_wait_rating", "manual_wait_poster_url",
      "wait_custom_language">>

ManualKey ==
    <<"title", "release_date", "overview", "genres", "vote_average",
      "manual_poster_url">>

\* C23: the texts of a manual entry walk the manual states in their fixed
\* order, one state per valid text, never back and never past the next one; a
\* manual state is entered only from the one before it (the first only by
\* /manual); every accepted text adds its own field and keeps the others, so
\* that the record holds all six fields when the session joins
\* 'wait_custom_language'.
C23_ManualWalk ==
    [][\A u \in Users :
         /\ \A i \in 1..6 :
              (last'.ev = "text" /\ last'.user = u /\ last'.from = ManualOrder[i]) =>
                 LET old == user_conversations[u]["details"]
                     new == user_conversations'[u]["details"]
                 IN  /\ StateOf(u)' \in {ManualOrder[i], ManualOrder[i + 1]}
                     /\ ~FailsFormatCheck(ManualOrder[i], last'.text) =>
                           /\ StateOf(u)' = ManualOrder[i + 1]
                           /\ DOMAIN new = DOMAIN old \cup {ManualKey[i]}
                           /\ \A k \in DOMAIN old \ {ManualKey[i]} : new[k] = old[k]
                     /\ StateOf(u)' = "wait_custom_language" =>
                           DOMAIN new = {ManualKey[k] : k \in 1..6}
         /\ Entered(u, "manual_wait_title") => last'.ev = "manual"
         /\ \A i \in 2..6 :
              Entered(u, ManualOrder[i]) =>
                 last'.ev = "text" /\ last'.from = ManualOrder[i - 1]]_vars

\* C23 witness: a manual entry with year "1999", genres "Hd, web" and rating
\* "n/a" has joined 'wait_custom_language' with year 1999, genres [Hd, web]
\* and rating 0.0.
C23_Witness ==
    /\ last.ev = "text"
    /\ last.from = "manual_wait_poster_url"
    /\ StateOf(last.user) = "wait_custom_language"
    /\ user_conversations[last.user]["details"] =
         [title |-> T_word,
          release_date |-> <<"1","9","9","9","-","0","1","-","0","1">>,
          overview |-> T_word,
          genres |-> << [name |-> <<"H","d">>], [name |-> <<"w","e","b">>] >>,
          vote_average |-> 0,
          manual_poster_url |-> <<"h","t","t","p","s",":","/","/","x">>]
    /\ generate_formatted_caption(user_conversations[last.user]["details"]).year
         = <<"1","9","9","9">>

\* a text in lower case
Lower(s) == [i \in 1..Len(s) |-> LowerChar(s[i])]

SentinelTokens ==
    {<<"d","o","n","e">>, <<"f","i","n","i","s","h">>, <<"o","k">>, <<"e","n","d">>,
     <<"s","e","s">>}

\* C24: a text in 'filedl_wait_btn_name' that is DONE, FINISH, OK, END or SES
\* in any letter case ends the collection: with at least one link the HTML of
\* the collected buttons is generated and sent, as a link or as a file, and the
\* session is removed; any other text becomes the pending button label and the
\* session waits for its URL, the collected links as they were.
C24_SentinelEndsCollection ==
    [][(last'.ev = "text" /\ last'.from = "filedl_wait_btn_name") =>
          LET u    == last'.user
              text == Strip(last'.text)
              old  == user_conversations[u]
          IN  IF Lower(text) \in SentinelTokens
              THEN old["data"]["links"] # << >> =>
                     /\ ~Has(user_conversations', u)
                     /\ last'.paste.called
                     /\ last'.content =
                          generate_filedl_html(old["data"]["title"], old["data"]["links"])
                     /\ last'.dispatch =
                          (IF last'.paste.url = None THEN "filedl_file" ELSE "filedl_link")
              ELSE /\ Has(user_conversations', u)
                   /\ user_conversations'[u] =
                        Put(Put(old, "temp_btn_name", text), "state",
                            "filedl_wait_btn_url")]_vars

\* C24 witness: "Ok" was sent with one button collected and the upload failed;
\* the HTML went out as a file and the session is gone.
C24_Witness ==
    /\ last.ev = "text"
    /\ last.from = "filedl_wait_btn_name"
    /\ last.text = S_mixed
    /\ last.dispatch = "filedl_file"
    /\ last.paste.called
    /\ last.paste.url = None
    /\ ~HasSession(last.user)

SessionEvents == {"start", "cancel", "manual", "text"}

C26_FilesMatchMaps ==
    /\ json_load(USER_AD_LINKS_FILE) = user_ad_links
    /\ json_load(USER_PROMO_CONFIG_FILE) = user_promo_config

\* the record names a poster and the request for it returned the bytes
PosterObtained(data, env) ==
    /\ \/ "manual_poster_url" \in DOMAIN data /\ data["manual_poster_url"] # << >>
       \/ "poster_path" \in DOMAIN data /\ data["poster_path"] # << >>
    /\ env.poster = "success"

\* C27: no exception leaves generate_image; it returns None when the poster
\* bytes are not obtained; and when the poster is obtained and opened and the
\* final drawing goes well, it returns an image however the backdrop step and
\* the ribbon step end.
C27_ImageBestEffort ==
    last.ev = "image_call" =>
       /\ ~last.image.raised
       /\ ~PosterObtained(last.data, last.env) => last.image.result = "None"
       /\ (/\ PosterObtained(last.data, last.env)
           /\ last.env.open = "ok"
           /\ last.env.compose = "ok") => last.image.result = "png"

\* C27 witness: for a record with a backdrop and a language, the backdrop
\* could not be opened and the ribbon font failed; an image came back without
\* them.
C27_Witness ==
    /\ last.ev = "image_call"
    /\ "backdrop_path" \in DOMAIN last.data
    /\ "custom_language" \in DOMAIN last.data
    /\ last.env.backdrop = "bad_image"
    /\ last.env.ribbon = "font_error"
    /\ last.image.result = "png"
    /\ ~last.image.backdrop
    /\ ~last.image.ribbon

\* C28: when the terminal transition finds no image, the session is 'done'
\* with its caption and HTML stored all the same, and the user gets one text
\* message with the warning and the caption, under the same action buttons a
\* photo would have carried.
C28_TextOnlyFallback ==
    [][(/\ last'.ev = "addlink_no"
        /\ last'.gen
        /\ last'.reply = "bundle"
        /\ user_conversations'[last'.owner]["generated"]["image"] = "None") =>
          LET u     == last'.owner
              convo == user_conversations'[u]
          IN  /\ convo["state"] = "done"
              /\ {"caption", "html"} \subseteq DOMAIN convo["generated"]
              /\ convo["generated"]["caption"] =
                   generate_formatted_caption(convo["details"])
              /\ last'.content.kind = "message"
              /\ last'.content.warning
              /\ last'.content.caption = convo["generated"]["caption"]
              /\ last'.content.buttons =
                   {"get_html", "get_caption"}
                     \cup (IF u \in DOMAIN user_channels THEN {"post_channel"} ELSE {})]_vars

\* C28 witness: the poster of a selected record could not be fetched; the
\* session is 'done' and the caption went out in a text message with the
\* warning.
C28_Witness ==
    /\ last.ev = "addlink_no"
    /\ last.reply = "bundle"
    /\ StateOf(last.owner) = "done"
    /\ user_conversations[last.owner]["generated"]["image"] = "None"
    /\ Has(user_conversations[last.owner]["details"], "poster_path")
    /\ last.content.kind = "message"
    /\ last.content.warning

\* the field is there and not empty
Filled(data, key) == key \in DOMAIN data /\ data[key] # << >>

\* the first characters of a text, at most n of them
FirstChars(t, n) == [i \in 1..(IF Len(t) < n THEN Len(t) ELSE n) |-> t[i]]

\* C29: the caption takes its title from 'title', else 'name', else "N/A"; its
\* year is the first 4 characters of 'release_date', else of 'first_air_date',
\* else "----"; an overview of at most 400 characters is emitted whole and a
\* longer one as its first 400 characters and "..."; the rating is rendered
\* with exactly one decimal place and is the rating of the record (0 when it
\* has none).
C29_CaptionFormat ==
    last.ev = "caption_call" =>
       LET data == last.data
           cap  == last.caption
           date == IF Filled(data, "release_date") THEN data["release_date"]
                   ELSE IF Filled(data, "first_air_date") THEN data["first_air_date"]
                   ELSE <<"-","-","-","-">>
       IN  /\ cap.title = (IF Filled(data, "title") THEN data["title"]
                           ELSE IF Filled(data, "name") THEN data["name"]
                           ELSE <<"N","/","A">>)
           /\ cap.year = FirstChars(date, 4)
           /\ "overview" \in DOMAIN data =>
                 cap.plot = (IF Len(data["overview"]) <= 400 THEN data["overview"]
                             ELSE FirstChars(data["overview"], 400) \o <<".",".",".">>)
           /\ RenderedHundredths(cap.rating) =
                 (IF "vote_average" \in DOMAIN data THEN 10 * data["vote_average"] ELSE 0)

\* C29 witness: a record with an empty title, a name, no release date, a first
\* air date and an overview of 401 characters gave a caption titled with the
\* name, dated 2004, with a plot of 403 characters that ends in "...".
C29_Witness ==
    /\ last.ev = "caption_call"
    /\ "title" \in DOMAIN last.data
    /\ last.data["title"] = << >>
    /\ "release_date" \notin DOMAIN last.data
    /\ "overview" \in DOMAIN last.data
    /\ Len(last.data["overview"]) = 401
    /\ last.caption.title = <<"L","o","s","t">>
    /\ last.caption.year = <<"2","0","0","4">>
    /\ Len(last.caption.plot) = 403
    /\ SubSeq(last.caption.plot, 400, 403) = <<"a",".",".",".">>
    /\ last.caption.rating = <<"8",".","3","/","1","0">>

\* the digits a text ends with
RECURSIVE TrailingDigits(_)
TrailingDigits(t) ==
    IF t = << >> \/ t[Len(t)] \notin Digits THEN << >>
    ELSE TrailingDigits(SubSeq(t, 1, Len(t) - 1)) \o << t[Len(t)] >>

\* the text ends with a year in parentheses
EndsInParens(q) ==
    /\ Len(q) >= 6
    /\ q[Len(q)] = ")"
    /\ q[Len(q) - 5] = "("
    /\ \A i \in (Len(q) - 4)..(Len(q) - 1) : q[i] \in Digits

\* C30: a query that is a name followed by a group of exactly four digits at
\* its end, bare or in parentheses, is searched by the name without the year,
\* filtered by those four digits; a query that does not end in a group of
\* exactly four digits (with or without a closing parenthesis) is searched
\* whole, trimmed, without a year filter.
C30_YearFilter ==
    last.ev = "search_call" =>
       LET q      == last.query
           found  == last.search
           bare   == /\ Len(TrailingDigits(q)) = 4
                     /\ Len(q) > 4 => q[Len(q) - 4] # "("
           before == IF EndsInParens(q) THEN SubSeq(q, 1, Len(q) - 6)
                     ELSE SubSeq(q, 1, Len(q) - 4)
           digits == IF EndsInParens(q) THEN SubSeq(q, Len(q) - 4, Len(q) - 1)
                     ELSE TrailingDigits(q)
           unclosed == IF q # << >> /\ q[Len(q)] = ")"
                       THEN SubSeq(q, 1, Len(q) - 1) ELSE q
       IN  /\ ((bare \/ EndsInParens(q)) /\ Strip(before) # << >>) =>
                 /\ found.name = Strip(before)
                 /\ found.year = digits
           /\ Len(TrailingDigits(unclosed)) # 4 =>
                 /\ found.name = Strip(q)
                 /\ found.year = None

\* C39: a sentinel token received in 'filedl_wait_btn_name' while no link has
\* been collected is rejected: no HTML is generated, no upload is attempted,
\* and the session stays in 'filedl_wait_btn_name', its title and its empty
\* list of links as they were.
C39_EmptySentinelRejected ==
    [][(/\ last'.ev = "text"
        /\ last'.from = "filedl_wait_btn_name"
        /\ Lower(Strip(last'.text)) \in SentinelTokens
        /\ user_conversations[last'.user]["data"]["links"] = << >>) =>
          /\ last'.reply = "no_buttons"
          /\ ~last'.paste.called
          /\ last'.content = NoContent
          /\ last'.dispatch = "none"
          /\ user_conversations' = user_conversations
          /\ user_conversations'[last'.user]["state"] = "filedl_wait_btn_name"]_vars

\* C39 witness: "Ok" was sent before any button was collected; the session
\* still waits for a button name, with its title and no links.
C39_Witness ==
    /\ last.ev = "text"
    /\ last.from = "filedl_wait_btn_name"
    /\ last.text = S_mixed
    /\ last.reply = "no_buttons"
    /\ ~last.paste.called
    /\ StateOf(last.user) = "filedl_wait_btn_name"
    /\ user_conversations[last.user]["data"]["links"] = << >>
    /\ Has(user_conversations[last.user]["data"], "title")

\* the sessions whose state is 'done', in a map of sessions
DoneSessions(convos) == {u \in DOMAIN convos : GetOr(convos[u], "state", "none") = "done"}

\* the session has a generated bundle with a caption and an HTML text
HasBundle(convo) ==
    /\ Has(convo, "generated")
    /\ {"caption", "html"} \subseteq DOMAIN convo["generated"]

\* C36: in every reachable state a session whose state is 'done' has a
\* generated bundle containing caption and HTML text; a step that sets a
\* session to 'done' is a generation, and the bundle it stored is the caption
\* and the HTML of that session's details and links.
C36_DoneHasBundle ==
    /\ [](\A u \in DoneSessions(user_conversations) : HasBundle(user_conversations[u]))
    /\ [][\A u \in DoneSessions(user_conversations') :
            (u \notin DoneSessions(user_conversations)) =>
              /\ last'.gen
              /\ last'.reply = "bundle"
              /\ HasBundle(user_conversations'[u])
              /\ user_conversations'[u]["generated"].caption =
                   generate_formatted_caption(user_conversations[u]["details"])
              /\ user_conversations'[u]["generated"].html =
                   generate_html(user_conversations[u]["details"],
                                 user_conversations[u]["links"],
                                 GetOr(user_ad_links, u, DEFAULT_AD_LINK))]_vars

\* C36 witness: a session with one collected link was generated and is 'done'
\* with its bundle.
C36_Witness ==
    /\ last.ev = "addlink_no"
    /\ last.gen
    /\ last.user \in DoneSessions(user_conversations)
    /\ HasBundle(user_conversations[last.user])
    /\ Len(user_conversations[last.user]["links"]) = 1

\* the key of the pending label in each state that waits for a URL
PendingLabelKey ==
    [wait_link_url |-> "current_label", filedl_wait_btn_url |-> "temp_btn_name"]

\* the state that waits for the label, for each state that waits for its URL
LabelStateOf ==
    [wait_link_url |-> "wait_link_label", filedl_wait_btn_url |-> "filedl_wait_btn_name"]

\* the links of a session: convo["links"], or convo["data"]["links"] in filedl
LinksIn(convo, state) ==
    IF state = "wait_link_url" THEN convo["links"] ELSE convo["data"]["links"]

\* C37: in every reachable state a session in 'wait_link_url' holds a pending
\* 'current_label' and a session in 'filedl_wait_btn_url' holds a pending
\* 'temp_btn_name'; the pending label is the text entered in the label state;
\* a URL that is accepted is appended paired with the pending label, and the
\* pending label is removed from the session.
C37_UrlPairedWithPendingLabel ==
    /\ [](\A u \in DOMAIN user_conversations :
            LET convo == user_conversations[u]
                state == GetOr(convo, "state", "none")
            IN  state \in DOMAIN PendingLabelKey => Has(convo, PendingLabelKey[state]))
    /\ [][last'.ev = "text" =>
            LET u == last'.user
            IN  /\ \A st \in DOMAIN PendingLabelKey :
                     (/\ last'.from = LabelStateOf[st]
                      /\ Has(user_conversations', u)
                      /\ user_conversations'[u]["state"] = st) =>
                        user_conversations'[u][PendingLabelKey[st]] = Strip(last'.text)
                /\ \A st \in DOMAIN PendingLabelKey :
                     (last'.from = st /\ last'.reply = "prompt") =>
                        LET old == user_conversations[u]
                            new == user_conversations'[u]
                        IN  /\ LinksIn(new, st) =
                                 Append(LinksIn(old, st),
                                        [label |-> old[PendingLabelKey[st]],
                                         url |-> Strip(last'.text)])
                            /\ ~Has(new, PendingLabelKey[st])
                            /\ new["state"] # st]_vars

\* C37 witness: a label and then a URL were entered; the link is stored with
\* that label and the session no longer holds a pending label.
C37_Witness ==
    /\ last.ev = "text"
    /\ last.from = "wait_link_url"
    /\ last.reply = "prompt"
    /\ StateOf(last.user) = "ask_another"
    /\ ~Has(user_conversations[last.user], "current_label")
    /\ Len(user_conversations[last.user]["links"]) = 1
    /\ user_conversations[last.user]["links"][1].url = Strip(last.text)

(***************************************************************************)
(* /post with the arguments a user can send                                *)
(***************************************************************************)
\* a provider URL
Q_url == <<"x","."," ">> \o TMDB_HOST \o <<"/","m","o","v","i","e","/","5","5","-","a">>

\* an IMDb identifier inside a URL
Q_imdb == <<"m","/","t","t","0","1","/">>

\* a shorthand whose id is 0
Q_zero == <<"m","o","v","i","e","/","0">>

\* a shorthand with white space around it
Q_spaced == <<" ","t","v","/","1","2"," ">>

\* a kind with something that is no id
Q_noid == <<"t","v","/","x">>

PostTexts == {Q_short, Q_url, Q_imdb, Q_zero, Q_spaced, Q_noid, T_word}

\* the answers of the find endpoint
Finds ==
    {NoFind,
     [status |-> "success", movie_results |-> << 7 >>, tv_results |-> << >>],
     [status |-> "success", movie_results |-> << >>, tv_results |-> << 9 >>],
     [status |-> "bad_status", movie_results |-> << >>, tv_results |-> << >>],
     [status |-> "timeout", movie_results |-> << >>, tv_results |-> << >>]}

NextPost ==
    \/ \E u \in Drivers, q \in PostTexts, f \in Finds, d \in {NoDetails, MovieRec},
          found \in BOOLEAN :
          post_command_handler(u, TRUE, q, f, d, found)
    \/ \E u \in Drivers : post_command_handler(u, FALSE, << >>, NoFind, NoDetails, FALSE)
    \/ \E u \in Drivers, d \in {NoDetails, TvRec} : selection_callback(u, u, d)
    \/ \E u \in Drivers : cancel_command(u)

SpecPost == Init /\ [][NextPost]_vars

\* C33: for /post, an argument that extract_tmdb_id resolves to (kind, id)
\* bypasses search: get_tmdb_details is asked, on details the session is
\* created in 'wait_custom_language', without details the lookup failure is
\* reported, and search_tmdb is called only when extract_tmdb_id returned
\* (None, None).
C33_IdentifierBypassesSearch ==
    [][(last'.ev = "post" /\ last'.reply # "usage") =>
          LET ref == extract_tmdb_id(last'.text, last'.content.find)
          IN  /\ last'.content.ref = ref
              /\ ref.found =>
                    /\ ~last'.content.searched
                    /\ last'.content.detailed
                    /\ last'.reply \in {"prompt", "lookup_failed"}
                    /\ last'.reply = "prompt" =>
                          /\ Has(user_conversations', last'.user)
                          /\ user_conversations'[last'.user]["state"] =
                               "wait_custom_language"
                          /\ user_conversations'[last'.user]["links"] = << >>
                    /\ last'.reply = "lookup_failed" =>
                          user_conversations' = user_conversations
              /\ last'.content.searched => ~ref.found]_vars

LookupEvents == {"details", "post", "sel"}

\* C32: when search_tmdb returns no results or get_tmdb_details returns none
\* inside /post, /details or a 'sel_' click, the handler reports the failure,
\* the sessions are left exactly as they were and no session is created; a
\* session these handlers create holds the record that was fetched.
C32_LookupFailureLeavesSessions ==
    [][last'.ev \in LookupEvents =>
          /\ last'.reply \in {"lookup_failed", "no_results", "invalid_selection",
                               "usage", "select"} =>
                user_conversations' = user_conversations
          /\ last'.reply = "prompt" =>
                \E u \in Users, d \in Lookups \ {NoDetails} :
                   user_conversations' = Put(user_conversations, u, NewSelection(d))
          /\ last'.reply \in {"lookup_failed", "no_results", "invalid_selection",
                               "usage", "select", "prompt"}]_vars

\* C32 witness: a lookup failed while the user had a session with a collected
\* link; the failure was reported and the session is still there.
C32_Witness ==
    /\ last.ev \in LookupEvents
    /\ last.reply = "lookup_failed"
    /\ HasSession(last.user)
    /\ Has(user_conversations[last.user], "links")
    /\ Len(user_conversations[last.user]["links"]) = 1

(***************************************************************************)
(* Process startup                                                         *)
(***************************************************************************)
\* a value of an environment variable
E_value == <<"k">>

\* values of API_ID
E_id == <<"1","2">>

E_padded == <<" ","7","\n">>

E_float == <<"1",".","5">>

E_word == <<"a","b">>

\* os.getenv of a variable that is not set is None; one that is set may be empty
Envs ==
    [BOT_TOKEN : {None, << >>, E_value},
     API_ID : {None, << >>, E_id, E_padded, E_float, E_word},
     API_HASH : {None, E_value},
     TMDB_API_KEY : {None, << >>, E_value}]

\* the check of the credentials is missing
AllPresent_any(env) == TRUE

\* all([BOT_TOKEN, API_ID, API_HASH, TMDB_API_KEY])
AllPresent(env) ==
    \A k \in {"BOT_TOKEN", "API_ID", "API_HASH", "TMDB_API_KEY"} :
       env[k] # None /\ Truthy(env[k])

\* int(API_ID) raises ValueError or TypeError
ApiIdRejected(value) == value = None \/ ~IsInt(Strip(value))

\* the process with environment env before the first statement of the module
Startup(env) ==
    [ev |-> "startup_input", env |-> env, pc |-> "env_check", client |-> FALSE,
     handling |-> FALSE, exit_code |-> 0]

InitStartup ==
    /\ user_conversations = EmptyDict
    /\ user_ad_links = EmptyDict
    /\ user_channels = EmptyDict
    /\ keyboards = [u \in Users |-> NoKeyboards]
    /\ \E env \in Envs : last = Startup(env)
    /\ loop = Idle
    /\ user_promo_config = EmptyDict
    /\ USER_AD_LINKS_FILE = EmptyDict
    /\ USER_PROMO_CONFIG_FILE = EmptyDict
    /\ awaiting = EmptyDict

\* sys.exit(1)
Exit(process) == [process EXCEPT !.pc = "exited", !.exit_code = 1]

\* the essential variable check
env_check ==
    /\ last.pc = "env_check"
    /\ last' = [(IF AllPresent(last.env) THEN [last EXCEPT !.pc = "parse_api_id"]
                 ELSE Exit(last)) EXCEPT !.ev = "env_check"]
    /\ UNCHANGED <<user_conversations, user_ad_links, user_channels, keyboards, loop, stores,
                   awaiting>>

\* API_ID = int(API_ID)
parse_api_id ==
    /\ last.pc = "parse_api_id"
    /\ last' = [(IF ApiIdRejected(last.env.API_ID) THEN Exit(last)
                 ELSE [last EXCEPT !.pc = "client_init"]) EXCEPT !.ev = "parse_api_id"]
    /\ UNCHANGED <<user_conversations, user_ad_links, user_channels, keyboards, loop, stores,
                   awaiting>>

\* bot = Client(...); raised is whether the constructor raised
client_init(raised) ==
    /\ last.pc = "client_init"
    /\ last' = [(IF raised THEN Exit(last)
                 ELSE [last EXCEPT !.pc = "main", !.client = TRUE])
                  EXCEPT !.ev = "client_init"]
    /\ UNCHANGED <<user_conversations, user_ad_links, user_channels, keyboards, loop, stores,
                   awaiting>>

\* bot.run(): from here on handlers process events
bot_run ==
    /\ last.pc = "main"
    /\ last' = [last EXCEPT !.ev = "bot_run", !.pc = "running", !.handling = TRUE]
    /\ UNCHANGED <<user_conversations, user_ad_links, user_channels, keyboards, loop, stores,
                   awaiting>>

\* the process is started again, with another environment
startup_input ==
    /\ last.pc \in {"exited", "running"}
    /\ \E env \in Envs : last' = Startup(env)
    /\ UNCHANGED <<user_conversations, user_ad_links, user_channels, keyboards, loop, stores,
                   awaiting>>

NextStartup ==
    \/ env_check
    \/ parse_api_id
    \/ \E raised \in BOOLEAN : client_init(raised)
    \/ bot_run
    \/ startup_input

SpecStartup == InitStartup /\ [][NextStartup]_vars

\* a credential is not set or empty, or API_ID is not the text of an integer
BadEnvironment(env) ==
    \/ \E k \in DOMAIN env : env[k] = None \/ env[k] = << >>
    \/ ~IsInt(Strip(env.API_ID))

\* C31: if any of BOT_TOKEN, API_ID, API_HASH and TMDB_API_KEY is missing, or
\* API_ID is not an integer, the process never gets past the two checks: the
\* bot client is not created, no handler processes an event, and the check
\* that finds the fault exits with status 1.
C31_BadEnvironmentAborts ==
    /\ [](BadEnvironment(last.env) =>
            /\ last.pc \in {"env_check", "parse_api_id", "exited"}
            /\ ~last.client
            /\ ~last.handling)
    /\ [][(BadEnvironment(last.env) /\ last.pc \in {"env_check", "parse_api_id"}
           /\ last'.ev # "startup_input") =>
            \/ last'.pc = "exited" /\ last'.exit_code = 1
            \/ /\ last.pc = "env_check" /\ last'.pc = "parse_api_id"
               /\ ApiIdRejected(last.env.API_ID)]_vars

\* C31 witness: TMDB_API_KEY was not set, the other three were; the process
\* exited with status 1 at the first check, without a client.
C31_Witness ==
    /\ last.ev = "env_check"
    /\ last.env = [BOT_TOKEN |-> E_value, API_ID |-> E_id, API_HASH |-> E_value,
                   TMDB_API_KEY |-> None]
    /\ last.pc = "exited"
    /\ last.exit_code = 1
    /\ ~last.client

(***************************************************************************)
(* The automatic channel post with the awaits of generate_final_content:   *)
(* the handler generates and delivers the bundle, is suspended at the send *)
(* of its progress message, and calls send_channel_post when it runs on;   *)
(* handlers of other events of the same user run in between.               *)
(***************************************************************************)
\* the owner's addlink_no click up to the await before send_channel_post
generate_final_content_begin(u, fetched) ==
    /\ keyboards[u].addlink > 0
    /\ HasSession(u)
    /\ ~Has(awaiting, u)
    /\ LET g == generate_final_content(user_conversations[u], u, fetched)
       IN  /\ g.reply = "bundle"
           /\ user_conversations' = Put(user_conversations, u, g.convo)
           /\ keyboards' = IssueFinal(ConsumeAddLink(keyboards, u), u)
           /\ last' = [ClickEvent("addlink_no", u, u, g.reply, g.gen, "none")
                         EXCEPT !.content = g.sent]
           /\ awaiting' = Put(awaiting, u, [handler |-> "generate_final_content",
                                            convo |-> g.convo])
    /\ UNCHANGED <<user_ad_links, user_channels>>
    /\ UNCHANGED stores
    /\ LoopStep(u, "addlink_no")

\* the suspended handler runs on: await send_channel_post(client, user_id, chat)
send_channel_post_resume(u, delivered) ==
    /\ Has(awaiting, u)
    /\ LET r == send_channel_post(GetOr(user_conversations, u, NoSession),
                                  GetOr(user_promo_config, u, NoSession), delivered)
       IN  last' = [ClickEvent("auto_post", u, u, r.outcome, FALSE, "none")
                      EXCEPT !.auto = r, !.content = awaiting[u].convo]
    /\ awaiting' = Del(awaiting, u)
    /\ UNCHANGED <<user_conversations, user_ad_links, user_channels, keyboards>>
    /\ UNCHANGED stores
    /\ LoopStep(u, "addlink_no")

NextChannel ==
    \/ \E u \in Drivers : details_command_handler(u, TRUE, MovieRec)
    \/ \E u \in Drivers :
          post_command_handler(u, TRUE, Q_short, NoFind, TvRec, FALSE)
    \/ \E u \in Drivers : conversation_text_handler(u, T_word, NoNet.https, NoNet.http)
    \/ \E u \in Drivers, f \in BOOLEAN : generate_final_content_begin(u, f)
    \/ \E u \in Drivers, delivered \in BOOLEAN : send_channel_post_resume(u, delivered)
    \/ \E u \in Drivers : cancel_command(u)
    \/ \E u \in Drivers : manual_add_command(u)
    \/ \E u \in Drivers : filedl_command(u)
    \/ \E u \in Drivers : set_promo_channel_command(u, TRUE, A_username)
    \/ \E u \in Drivers : set_promo_name_command(u, TRUE, A_word)
    \/ \E u \in Drivers : set_watch_link_command(u, TRUE, A_link)
    \/ \E u \in Drivers : set_download_link_command(u, TRUE, A_link)
    \/ \E u \in Drivers : set_request_link_command(u, TRUE, A_link)

SpecChannel == Init /\ [][NextChannel]_vars

\* the title, year, language and quality a channel post of a session shows
PostFields(convo) ==
    LET details == convo["details"]
    IN  [title    |-> FirstTruthy(details, "title", "name", NA),
         year     |-> Prefix(FirstTruthy(details, "release_date", "first_air_date",
                                         NoYear), 4),
         language |-> GetOr(details, "custom_language", NA),
         quality  |-> GetOr(details, "custom_quality", NA)]

\* C34: the automatic channel post at the end of generate_final_content
\* describes the media record of the bundle that was just generated: whatever
\* handlers of the same user ran while the generation was suspended,
\* send_channel_post posts the title, year, language and quality of the
\* generated session or posts nothing, and it never fails on a missing
\* session.
C34_AutoPostOfGeneratedSession ==
    [][last'.ev = "auto_post" =>
          LET generated == awaiting[last'.user].convo
              r == last'.auto
          IN  /\ r.outcome # "error"
              /\ r.outcome \in {"posted", "send_failed"} =>
                    [k \in DOMAIN PostFields(generated) |-> r[k]] = PostFields(generated)]_vars

\* C35: the automatic channel post is sent only when the user's promo config
\* has a channel and all four of name, watch_link, download_link and
\* request_link; without a channel the post is skipped with a notice, with a
\* channel and a field missing it fails with a notice, and in both cases the
\* sessions, their state and their generated bundle, are as they were.
C35_AutoPostNeedsCompleteConfig ==
    [][last'.ev = "auto_post" =>
          LET promo == GetOr(user_promo_config, last'.user, EmptyDict)
              r == last'.auto
          IN  /\ r.outcome \in {"posted", "send_failed"} =>
                    /\ Has(promo, "channel")
                    /\ PromoFields \subseteq DOMAIN promo
                    /\ r.channel = promo["channel"]
                    /\ r.promo = [k \in PromoFields |-> promo[k]]
              /\ ~Has(promo, "channel") => r.outcome = "skipped"
              /\ (Has(promo, "channel") /\ ~(PromoFields \subseteq DOMAIN promo)) =>
                    r.outcome = "incomplete"
              /\ r.outcome \in {"skipped", "incomplete"} =>
                    user_conversations' = user_conversations]_vars

\* C35 witness: with a channel and the four fields set, the post of a
\* generated session went out to the channel; the session is 'done' with its
\* bundle.
C35_Witness ==
    /\ last.ev = "auto_post"
    /\ last.auto.outcome = "posted"
    /\ last.auto.channel = A_username
    /\ last.auto.title = MovieRec.title
    /\ StateOf(last.user) = "done"
    /\ Has(user_conversations[last.user], "generated")
    /\ DOMAIN user_promo_config[last.user] = PromoFields \cup {"channel"}

(***************************************************************************)
(* Every kind of event: the commands, texts and clicks of one user, the    *)
(* config commands, and the texts and clicks of the other user             *)
(***************************************************************************)
NextEntries ==
    \/ \E u \in Drivers : start_command(u)
    \/ \E u \in Drivers : cancel_command(u)
    \/ \E u \in Drivers : manual_add_command(u)
    \/ \E u \in Drivers : filedl_command(u)
    \/ \E u \in Drivers, d \in {NoDetails, MovieRec} : details_command_handler(u, TRUE, d)
    \/ \E u \in Drivers : details_command_handler(u, FALSE, NoDetails)
    \/ \E u \in Drivers, q \in PostQueries :
          post_command_handler(u, q.has_arg, q.query, q.find, q.details, q.found)
    \/ \E c \in Drivers, o \in Drivers, d \in {NoDetails, TvRec} :
          selection_callback(c, o, d)
    \/ \E u \in Users : conversation_text_handler(u, T_word, NoNet.https, NoNet.http)
    \/ \E c \in Users, o \in Drivers, a \in AddLinkActions :
          add_link_callback(c, a, o, TRUE, TRUE)
    \/ \E c \in Users, o \in Drivers, a \in FinalActions :
          final_action_callback(c, a, o, NoNet.https, NoNet.http)
    \/ \E u \in Others : set_ad_link_command(u, TRUE, A_link)
    \/ \E u \in Others : set_channel_command(u, TRUE, A_word)
    \/ \E u \in Others : set_promo_channel_command(u, FALSE, << >>)
    \/ \E u \in Others : set_promo_name_command(u, TRUE, A_word)
    \/ \E u \in Others : set_watch_link_command(u, TRUE, T_http)
    \/ \E u \in Others : set_download_link_command(u, FALSE, << >>)
    \/ \E u \in Others : set_request_link_command(u, TRUE, T_http)

SpecEntries == Init /\ [][NextEntries]_vars

\* the events that start a post afresh
FreshStartEvents == {"manual", "filedl", "details", "post", "sel"}

\* C38: an entry is added to user_conversations only by a fresh-start event,
\* for the user who sent it: /manual, /filedl, a /details or 'sel_' click
\* whose lookup succeeded, a /post by identifier whose lookup succeeded.
\* Plain text from a user with no session, a rejected button click, /cancel,
\* /start and the config commands add none, and /start removes the session
\* of its user.
C38_OnlyFreshStartsCreate ==
    [][
        /\ \A u \in Users :
              (~Has(user_conversations, u) /\ Has(user_conversations', u)) =>
                 /\ last'.ev \in FreshStartEvents
                 /\ last'.user = u
                 /\ (last'.ev \in {"details", "post", "sel"} => last'.reply = "prompt")
                 /\ (last'.ev = "post" => last'.content.ref.found)
        /\ (last'.ev = "start" =>
               user_conversations' = Del(user_conversations, last'.user))
        /\ ((last'.ev \in ConfigEvents \cup {"cancel", "start"}
              \/ last'.reply \in {"start_hint", "not_for_you", "expired"}) =>
               DOMAIN user_conversations' \subseteq DOMAIN user_conversations)
    ]_vars

\* C38 witness: /start was sent by a user with a session, and the session is
\* gone.
C38_Witness ==
    /\ last.ev = "start"
    /\ last.from = "ask_links"
    /\ ~HasSession(last.user)

====
